---- MODULE Spec2Model ----
(***************************************************************************)
(* State-machine model of the rg3d user interface core                     *)
(* (src/src/gui/mod.rs): the node arena, the widget tree, mouse capture,   *)
(* the shared event queue, event dispatch (poll_ui_event) and the          *)
(* translation of window events (process_input_event).                     *)
(*                                                                         *)
(* Conventions.                                                            *)
(*  - A handle is a natural number: NONE = 0 is Handle::NONE and h >= 1 is *)
(*    the handle of arena slot h.  No operation of UserInterface frees a   *)
(*    slot, so every live handle has the generation its slot was spawned   *)
(*    with and the generation is not represented.                          *)
(*  - Option<T> is a sequence of length 0 (None) or 1 (Some).              *)
(*  - A panic aborts the program: it sets panicked and nothing can follow. *)
(*  - Lengths and coordinates are fixed-point numbers with two decimal     *)
(*    digits: the integer v stands for the f32 value v / 100.  The sizes,  *)
(*    margins and window sizes the model draws are whole tenths, so the    *)
(*    halves arrange takes of their differences are whole hundredths.      *)
(***************************************************************************)
EXTENDS Integers, Sequences, FiniteSets, TLC

VARIABLES
    pool,                 \* UserInterface::nodes, a sequence of Option<widget>
    root_canvas,          \* UserInterface::root_canvas
    picked_node,          \* UserInterface::picked_node
    prev_picked_node,     \* UserInterface::prev_picked_node
    captured_node,        \* UserInterface::captured_node
    keyboard_focus_node,  \* UserInterface::keyboard_focus_node
    mouse_position,       \* UserInterface::mouse_position
    events,               \* UserInterface::events, the shared queue
    commands,             \* the command buffer of UserInterface::drawing_context
    stack,                \* the poll_ui_event calls in progress, innermost last
    panicked,             \* a panic has aborted the program
    hcalls,               \* the interface calls handlers have made so far
    sent,                 \* history: every event appended to the shared queue
    popped,               \* history: every event popped from the shared queue
    returned,             \* history: the polls that returned an event
    last                  \* the last interface call and what it returned

vars == <<pool, root_canvas, picked_node, prev_picked_node, captured_node,
          keyboard_focus_node, mouse_position, events, commands, stack,
          panicked, hcalls, sent, popped, returned, last>>

----------------------------------------------------------------------------
(* Bounds of the model *)

\* nodes in the arena, the root included
MaxNodes == 3

\* nodes in the arena of the runs that exercise the queues
MaxQueueNodes == 2

\* events made in a run
MaxEvents == 2

\* poll_ui_event calls nested in one another
MaxDepth == 2

\* interface calls made by handlers in a run
MaxHandlerCalls == 1

----------------------------------------------------------------------------
(* Handles and options *)

NONE == 0

IsSome(h) == h # NONE

IsNone(h) == h = NONE

None == << >>

Some(x) == <<x>>

----------------------------------------------------------------------------
(* The arena (core::pool::Pool) *)

GetCapacity(p) == Len(p)

\* Pool::is_valid_handle for a handle whose node is in its slot, and for a
\* handle of no slot
IsValidHandle(p, h) == h \in 1..Len(p) /\ p[h] # None

\* what Pool::is_valid_handle can answer.  take_at leaves the slot vacant
\* and its generation as it was: whether the handle of the node that is
\* taken out is valid is decided in core::pool, and either answer is
\* possible.
IsValidHandleAnswers(p, h) ==
    IF h \in 1..Len(p) /\ p[h] = None THEN BOOLEAN
    ELSE {IsValidHandle(p, h)}

BorrowOk(p, h) == h \in 1..Len(p) /\ p[h] # None

Node(p, h) == p[h][1]

Spawn(p, w) == Append(p, Some(w))

TakeAt(p, i) == [node |-> p[i], pool |-> [p EXCEPT ![i] = None]]

ReplaceAt(p, i, w) == [old |-> p[i], pool |-> [p EXCEPT ![i] = Some(w)]]

HandleFromIndex(p, i) == i

SetNode(p, h, w) == [p EXCEPT ![h] = Some(w)]

----------------------------------------------------------------------------
(* Sequence helpers *)

RECURSIVE RemoveFirst(_, _)
RemoveFirst(s, x) ==
    IF s = << >> THEN << >>
    ELSE IF Head(s) = x THEN Tail(s)
    ELSE <<Head(s)>> \o RemoveFirst(Tail(s), x)

Count(s, x) == Cardinality({k \in 1..Len(s) : s[k] = x})

Range(q) == {q[k] : k \in 1..Len(q)}

----------------------------------------------------------------------------
(* Numbers *)

\* f32::NAN, the explicit width or height of a widget that sets none
NaN == -999999

\* f32::INFINITY, the max_size of a widget that sets none
Inf == 999999

Vec2(a, b) == [x |-> a, y |-> b]

Vec2Zero == Vec2(0, 0)

Rect(a, b, c, d) == [x |-> a, y |-> b, w |-> c, h |-> d]

ThicknessZero == [left |-> 0, top |-> 0, right |-> 0, bottom |-> 0]

----------------------------------------------------------------------------
(* Widgets (gui::widget::Widget, the fields mod.rs reads and writes).     *)
(* draws names what the control's draw emits: "none" is Control::draw's   *)
(* default, "bounds" a control that fills its screen bounds, "overflow" a *)
(* control whose geometry reaches beyond its screen bounds.               *)

NewWidget(t) ==
    [ name |-> t.name,
      parent |-> NONE,
      children |-> << >>,
      visibility |-> t.visibility,
      global_visibility |-> TRUE,
      is_hit_test_visible |-> t.is_hit_test_visible,
      is_mouse_over |-> FALSE,
      events |-> << >>,
      command_indices |-> << >>,
      width |-> t.width,
      height |-> t.height,
      min_size |-> t.min_size,
      max_size |-> t.max_size,
      margin |-> t.margin,
      horizontal_alignment |-> t.horizontal_alignment,
      vertical_alignment |-> t.vertical_alignment,
      desired_size |-> Vec2Zero,
      actual_size |-> Vec2Zero,
      actual_local_position |-> Vec2Zero,
      screen_position |-> Vec2Zero,
      draws |-> t.draws ]

\* WidgetBuilder's defaults
DefaultTemplate ==
    [ name |-> "",
      visibility |-> "Visible",
      is_hit_test_visible |-> TRUE,
      width |-> NaN,
      height |-> NaN,
      min_size |-> Vec2Zero,
      max_size |-> Vec2(Inf, Inf),
      margin |-> ThicknessZero,
      horizontal_alignment |-> "Stretch",
      vertical_alignment |-> "Stretch",
      draws |-> "none" ]

----------------------------------------------------------------------------
(* The tree: unlink_node, link_nodes, add_node.  Each returns the arena   *)
(* it leaves and whether a borrow of a vacant slot panicked on the way.   *)

Ok(p) == [panic |-> FALSE, pool |-> p]

Panic(p) == [panic |-> TRUE, pool |-> p]

\* an unlink that forgets the child list of the parent
UnlinkNodeKeepingChild(p, node_handle) ==
    IF ~BorrowOk(p, node_handle) THEN Panic(p)
    ELSE Ok(SetNode(p, node_handle,
                    [Node(p, node_handle) EXCEPT !.parent = NONE]))

UnlinkNode(p, node_handle) ==
    IF ~BorrowOk(p, node_handle) THEN Panic(p)
    ELSE
      LET parent_handle == Node(p, node_handle).parent
          p1 == SetNode(p, node_handle,
                        [Node(p, node_handle) EXCEPT !.parent = NONE])
      IN  IF IsSome(parent_handle)
          THEN IF ~BorrowOk(p1, parent_handle) THEN Panic(p1)
               ELSE Ok(SetNode(p1, parent_handle,
                        [Node(p1, parent_handle) EXCEPT
                            !.children = RemoveFirst(@, node_handle)]))
          ELSE Ok(p1)

\* a link that leaves the child in the list of the parent it had
LinkNodesKeepingParent(p, child_handle, parent_handle) ==
    IF ~BorrowOk(p, child_handle) THEN Panic(p)
    ELSE
      LET p1 == SetNode(p, child_handle,
                        [Node(p, child_handle) EXCEPT !.parent = parent_handle])
      IN  IF ~BorrowOk(p1, parent_handle) THEN Panic(p1)
          ELSE Ok(SetNode(p1, parent_handle,
                    [Node(p1, parent_handle) EXCEPT
                        !.children = Append(@, child_handle)]))

LinkNodes(p, child_handle, parent_handle) ==
    LET u == UnlinkNode(p, child_handle)
    IN  IF u.panic THEN u
        ELSE
          LET p1 == SetNode(u.pool, child_handle,
                            [Node(u.pool, child_handle) EXCEPT
                                !.parent = parent_handle])
          IN  IF ~BorrowOk(p1, parent_handle) THEN Panic(p1)
              ELSE Ok(SetNode(p1, parent_handle,
                        [Node(p1, parent_handle) EXCEPT
                            !.children = Append(@, child_handle)]))

RECURSIVE LinkChildren(_, _, _)
LinkChildren(r, children, node_handle) ==
    IF r.panic \/ children = << >> THEN r
    ELSE LinkChildren(LinkNodes(r.pool, Head(children), node_handle),
                      Tail(children), node_handle)

\* an add_node whose arena puts the node into the lowest vacant slot, when
\* there is one, instead of a slot of its own
AddNodeInVacant(p, root, node) ==
    LET children == node.children
        vacant == {i \in 1..Len(p) : p[i] = None}
        node_handle == IF vacant = {} THEN Len(p) + 1
                       ELSE CHOOSE i \in vacant : \A k \in vacant : i <= k
        p1 == IF vacant = {} THEN Spawn(p, [node EXCEPT !.children = << >>])
              ELSE SetNode(p, node_handle, [node EXCEPT !.children = << >>])
        r1 == IF IsSome(root) THEN LinkNodes(p1, node_handle, root) ELSE Ok(p1)
        r2 == LinkChildren(r1, children, node_handle)
    IN  [panic |-> r2.panic, pool |-> r2.pool, handle |-> node_handle]

AddNode(p, root, node) ==
    LET children == node.children
        p1 == Spawn(p, [node EXCEPT !.children = << >>])
        node_handle == Len(p1)
        r1 == IF IsSome(root) THEN LinkNodes(p1, node_handle, root) ELSE Ok(p1)
        r2 == LinkChildren(r1, children, node_handle)
    IN  [panic |-> r2.panic, pool |-> r2.pool, handle |-> node_handle]


----------------------------------------------------------------------------
(* Layout: Control::measure and Control::arrange with the default         *)
(* measure_override and arrange_override.  NaN compares false with        *)
(* everything, as an f32 does.                                            *)

IsNaN(a) == a = NaN

Gt(a, b) == ~IsNaN(a) /\ ~IsNaN(b) /\ a > b

Lt(a, b) == ~IsNaN(a) /\ ~IsNaN(b) /\ a < b

maxf(a, b) == IF Gt(a, b) THEN a ELSE b

minf(a, b) == IF Lt(a, b) THEN a ELSE b

\* a centring that forgets the half
Whole(a) == a

\* x * 0.5: a is a difference of sizes and margins, an even number of
\* hundredths, so the half is exact
Half(a) == a \div 2

\* the clamp of measure: max_size first, else min_size
ClampSize(v, lo, hi) == IF Gt(v, hi) THEN hi ELSE IF Lt(v, lo) THEN lo ELSE v

RECURSIVE Measure(_, _, _)
RECURSIVE MeasureOverride(_, _, _, _)

\* measure_override: the largest desired size among the children
MeasureOverride(p, children, available_size, size) ==
    IF children = << >> THEN [pool |-> p, size |-> size]
    ELSE
      LET p1 == Measure(p, Head(children), available_size)
          child_desired_size == Node(p1, Head(children)).desired_size
      IN  MeasureOverride(p1, Tail(children), available_size,
             Vec2(IF Gt(child_desired_size.x, size.x)
                     THEN child_desired_size.x ELSE size.x,
                  IF Gt(child_desired_size.y, size.y)
                     THEN child_desired_size.y ELSE size.y))

Measure(p, h, available_size) ==
    LET widget == Node(p, h)
        margin == Vec2(widget.margin.left + widget.margin.right,
                       widget.margin.top + widget.margin.bottom)
        w == IF Gt(widget.width, 0) THEN widget.width
             ELSE maxf(0, available_size.x - margin.x)
        hh == IF Gt(widget.height, 0) THEN widget.height
              ELSE maxf(0, available_size.y - margin.y)
        size_for_child ==
            Vec2(ClampSize(w, widget.min_size.x, widget.max_size.x),
                 ClampSize(hh, widget.min_size.y, widget.max_size.y))
    IN  IF widget.visibility = "Visible"
        THEN
          LET m == MeasureOverride(p, widget.children, size_for_child, Vec2Zero)
              \* the explicit width is written before the clamp
              dx0 == IF ~IsNaN(widget.width) THEN widget.width ELSE m.size.x
              dx1 == ClampSize(dx0, widget.min_size.x, widget.max_size.x)
              \* the explicit height is written after the clamp
              dy0 == ClampSize(m.size.y, widget.min_size.y, widget.max_size.y)
              dy1 == IF ~IsNaN(widget.height) THEN widget.height ELSE dy0
              dx2 == dx1 + margin.x
              dy2 == dy1 + margin.y
              desired_size ==
                  Vec2(IF Gt(dx2, available_size.x) THEN available_size.x ELSE dx2,
                       IF Gt(dy2, available_size.y) THEN available_size.y ELSE dy2)
          IN  SetNode(m.pool, h,
                      [Node(m.pool, h) EXCEPT !.desired_size = desired_size])
        ELSE SetNode(p, h, [widget EXCEPT !.desired_size = Vec2Zero])

RECURSIVE Arrange(_, _, _)
RECURSIVE ArrangeOverride(_, _, _)

\* arrange_override: every child gets the whole final size
ArrangeOverride(p, children, final_size) ==
    IF children = << >> THEN p
    ELSE ArrangeOverride(
            Arrange(p, Head(children), Rect(0, 0, final_size.x, final_size.y)),
            Tail(children), final_size)

\* an arrange that shrinks to the desired size on stretched axes too
ArrangeShrinking(p, h, final_rect) ==
    LET widget == Node(p, h)
    IN  IF widget.visibility # "Visible" THEN p
        ELSE
          LET margin_x == widget.margin.left + widget.margin.right
              margin_y == widget.margin.top + widget.margin.bottom
              origin_x0 == final_rect.x + widget.margin.left
              origin_y0 == final_rect.y + widget.margin.top
              size_without_margin ==
                  Vec2(maxf(0, final_rect.w - margin_x),
                       maxf(0, final_rect.h - margin_y))
              sx1 == minf(size_without_margin.x,
                          widget.desired_size.x - margin_x)
              sy1 == minf(size_without_margin.y,
                          widget.desired_size.y - margin_y)
              sx2 == IF Gt(widget.width, 0) THEN widget.width ELSE sx1
              sy2 == IF Gt(widget.height, 0) THEN widget.height ELSE sy1
              p1 == ArrangeOverride(p, widget.children, Vec2(sx2, sy2))
              sx3 == IF Gt(sx2, final_rect.w) THEN final_rect.w ELSE sx2
              sy3 == IF Gt(sy2, final_rect.h) THEN final_rect.h ELSE sy2
              origin_x ==
                  CASE widget.horizontal_alignment \in {"Center", "Stretch"} ->
                          origin_x0 + Half(size_without_margin.x - sx3)
                    [] widget.horizontal_alignment = "Right" ->
                          origin_x0 + (size_without_margin.x - sx3)
                    [] OTHER -> origin_x0
              origin_y ==
                  CASE widget.vertical_alignment \in {"Center", "Stretch"} ->
                          origin_y0 + Half(size_without_margin.y - sy3)
                    [] widget.vertical_alignment = "Bottom" ->
                          origin_y0 + (size_without_margin.y - sy3)
                    [] OTHER -> origin_y0
          IN  SetNode(p1, h,
                 [Node(p1, h) EXCEPT
                     !.actual_size = Vec2(sx3, sy3),
                     !.actual_local_position = Vec2(origin_x, origin_y)])

Arrange(p, h, final_rect) ==
    LET widget == Node(p, h)
    IN  IF widget.visibility # "Visible" THEN p
        ELSE
          LET margin_x == widget.margin.left + widget.margin.right
              margin_y == widget.margin.top + widget.margin.bottom
              origin_x0 == final_rect.x + widget.margin.left
              origin_y0 == final_rect.y + widget.margin.top
              size_without_margin ==
                  Vec2(maxf(0, final_rect.w - margin_x),
                       maxf(0, final_rect.h - margin_y))
              sx1 == IF widget.horizontal_alignment # "Stretch"
                     THEN minf(size_without_margin.x,
                               widget.desired_size.x - margin_x)
                     ELSE size_without_margin.x
              sy1 == IF widget.vertical_alignment # "Stretch"
                     THEN minf(size_without_margin.y,
                               widget.desired_size.y - margin_y)
                     ELSE size_without_margin.y
              sx2 == IF Gt(widget.width, 0) THEN widget.width ELSE sx1
              sy2 == IF Gt(widget.height, 0) THEN widget.height ELSE sy1
              p1 == ArrangeOverride(p, widget.children, Vec2(sx2, sy2))
              sx3 == IF Gt(sx2, final_rect.w) THEN final_rect.w ELSE sx2
              sy3 == IF Gt(sy2, final_rect.h) THEN final_rect.h ELSE sy2
              origin_x ==
                  CASE widget.horizontal_alignment \in {"Center", "Stretch"} ->
                          origin_x0 + Half(size_without_margin.x - sx3)
                    [] widget.horizontal_alignment = "Right" ->
                          origin_x0 + (size_without_margin.x - sx3)
                    [] OTHER -> origin_x0
              origin_y ==
                  CASE widget.vertical_alignment \in {"Center", "Stretch"} ->
                          origin_y0 + Half(size_without_margin.y - sy3)
                    [] widget.vertical_alignment = "Bottom" ->
                          origin_y0 + (size_without_margin.y - sy3)
                    [] OTHER -> origin_y0
          IN  SetNode(p1, h,
                 [Node(p1, h) EXCEPT
                     !.actual_size = Vec2(sx3, sy3),
                     !.actual_local_position = Vec2(origin_x, origin_y)])

----------------------------------------------------------------------------
(* update_node: screen positions and global visibility, top down *)

RECURSIVE UpdateNode(_, _)
RECURSIVE UpdateChildren(_, _)

UpdateChildren(p, children) ==
    IF children = << >> THEN p
    ELSE UpdateChildren(UpdateNode(p, Head(children)), Tail(children))

\* an update that looks at the node's own visibility only
UpdateNodeLocal(p, node_handle) ==
    LET widget == Node(p, node_handle)
        p1 == SetNode(p, node_handle,
                 [widget EXCEPT
                     !.global_visibility = (widget.visibility = "Visible")])
    IN  UpdateChildren(p1, widget.children)

UpdateNode(p, node_handle) ==
    LET widget == Node(p, node_handle)
        parent_widget == Node(p, widget.parent)
        screen_position ==
            IF IsSome(widget.parent)
            THEN Vec2(widget.actual_local_position.x
                         + parent_widget.screen_position.x,
                      widget.actual_local_position.y
                         + parent_widget.screen_position.y)
            ELSE widget.actual_local_position
        parent_visibility ==
            IF IsSome(widget.parent) THEN parent_widget.global_visibility
            ELSE TRUE
        p1 == SetNode(p, node_handle,
                 [widget EXCEPT
                     !.screen_position = screen_position,
                     !.global_visibility =
                         (widget.visibility = "Visible" /\ parent_visibility)])
    IN  UpdateChildren(p1, widget.children)

\* the nodes the passes reach from a set of nodes through child lists
RECURSIVE Reach(_, _, _)
Reach(p, frontier, seen) ==
    IF frontier \subseteq seen THEN seen
    ELSE LET new == frontier \ seen
         IN  Reach(p, UNION {IF p[n] = None THEN {}
                                ELSE Range(Node(p, n).children) : n \in new},
                   seen \cup new)

\* a recursive pass from h never returns: it meets a node again
Loops(p, h) ==
    \E n \in Reach(p, {h}, {}) :
        p[n] # None /\ n \in Reach(p, Range(Node(p, n).children), {})

\* update: measure, arrange, update_node (Control::update does nothing)
Update(p, root, screen_size) ==
    LET p1 == Measure(p, root, screen_size)
        p2 == Arrange(p1, root, Rect(0, 0, screen_size.x, screen_size.y))
    IN  UpdateNode(p2, root)

----------------------------------------------------------------------------
(* Drawing: draw_node and draw.  A command is its kind and the rectangle  *)
(* it covers; indices into the command buffer count from 0.               *)

ScreenBounds(widget) ==
    Rect(widget.screen_position.x, widget.screen_position.y,
         widget.actual_size.x, widget.actual_size.y)

\* Rect::inflate
Inflate(r, dw, dh) == Rect(r.x - dw, r.y - dh, r.w + 2 * dw, r.h + 2 * dh)

\* bounds.inflate(0.9, 0.9), in hundredths
ClipInflate == 90

\* how far the geometry of an overflowing control reaches beyond its
\* bounds, in hundredths
Overflow == 200

\* what the draw of the control appends
DrawCommands(widget, bounds) ==
    CASE widget.draws = "bounds" -> <<[kind |-> "Geometry", rect |-> bounds]>>
      [] widget.draws = "overflow" ->
            <<[kind |-> "Geometry", rect |-> Inflate(bounds, Overflow, Overflow)]>>
      [] OTHER -> << >>

\* the indices start_index..end_index, the end excluded
RECURSIVE IndexRange(_, _)
IndexRange(start_index, end_index) ==
    IF start_index >= end_index THEN << >>
    ELSE <<start_index>> \o IndexRange(start_index + 1, end_index)

\* u8::MAX, the largest nesting draw_node can pass down
U8Max == 255

\* The calls of draw_node in progress are kept as a sequence, st.calls,
\* the innermost last: a call is its node, its nesting and the place of
\* the child its loop draws next.  st also holds the arena, the command
\* buffer, whether the build checks integer overflow, and how the pass
\* went: "ok", "panic" when borrow_mut met a node that is out of the arena
\* or nesting + 1 overflowed, "overflow" when the recursion has no end.
\* What was cleared, appended and written before the end stays.

\* draw_node(node_handle, nesting), from its entry to its loop.  The
\* function sets no limit to the calls in progress.  A call for a globally
\* visible node that a call in progress is drawing repeats what that call
\* did, without end: a build that checks integer overflow goes round until
\* nesting + 1 panics, and in a build that does not the nesting wraps, the
\* stack runs out and the process is killed, which ends the pass here.
DrawNode(st, node_handle, nesting) ==
    IF ~BorrowOk(st.pool, node_handle) THEN [st EXCEPT !.end = "panic"]
    ELSE
      LET widget == Node(st.pool, node_handle)
          bounds == ScreenBounds(widget)
      IN  IF ~widget.global_visibility THEN st
          ELSE IF /\ ~st.checks
                  /\ \E k \in 1..Len(st.calls) :
                        st.calls[k].node = node_handle
          THEN [st EXCEPT !.end = "overflow"]
          ELSE
            LET start_index == Len(st.cmds)
                clip == [kind |-> "Clip",
                         rect |-> Inflate(bounds, ClipInflate, ClipInflate)]
                cmds == Append(st.cmds, clip) \o DrawCommands(widget, bounds)
                end_index == Len(cmds)
                p1 == SetNode(st.pool, node_handle,
                         [widget EXCEPT !.command_indices =
                             @ \o IndexRange(start_index, end_index)])
            IN  [st EXCEPT !.pool = p1, !.cmds = cmds,
                           !.calls = Append(@, [node |-> node_handle,
                                                nesting |-> nesting,
                                                next |-> 1])]

\* one turn of the loop over the children in the innermost call, or its
\* return after the last child.  A turn computes nesting + 1 in a u8
\* before it calls draw_node: at nesting U8Max a build with overflow
\* checks panics there, a build without them wraps to 0.
DrawChildren(st) ==
    LET depth == Len(st.calls)
        call == st.calls[depth]
        children == Node(st.pool, call.node).children
    IN  IF call.next > Len(children)
        THEN [st EXCEPT !.calls = SubSeq(@, 1, depth - 1)]
        ELSE IF call.nesting = U8Max /\ st.checks
        THEN [st EXCEPT !.end = "panic"]
        ELSE DrawNode([st EXCEPT !.calls[depth].next = @ + 1],
                      children[call.next],
                      (call.nesting + 1) % (U8Max + 1))

\* the next turns of the pass, until the outermost call has returned or
\* the pass has ended: as many as it takes to be done and at most
\* the number given (the turns are split in halves to keep the evaluation
\* shallow)
RECURSIVE DrawPass(_, _)
DrawPass(st, turns) ==
    IF st.calls = << >> \/ st.end # "ok" THEN st
    ELSE IF turns <= 1 THEN DrawChildren(st)
    ELSE DrawPass(DrawPass(st, turns \div 2), turns - turns \div 2)

\* the pass to its end, however many turns it takes: once more with twice
\* the turns until it is done
RECURSIVE DrawRun(_, _)
DrawRun(st, turns) ==
    IF st.calls = << >> \/ st.end # "ok" THEN st
    ELSE DrawRun(DrawPass(st, turns), 2 * turns)

\* for node in self.nodes.iter_mut(): the slots in use, each cleared (the
\* arena is split in halves to keep the evaluation shallow)
RECURSIVE ClearIndices(_)
ClearIndices(p) ==
    IF p = << >> THEN << >>
    ELSE IF Len(p) = 1
    THEN <<IF Head(p) = None THEN None
           ELSE Some([Head(p)[1] EXCEPT !.command_indices = << >>])>>
    ELSE ClearIndices(SubSeq(p, 1, Len(p) \div 2))
         \o ClearIndices(SubSeq(p, Len(p) \div 2 + 1, Len(p)))

\* a draw that leaves the indices of the draw before in the nodes
DrawKeepingIndices(p, root, checks) ==
    DrawRun(DrawNode([pool |-> p, cmds |-> << >>, checks |-> checks,
                      calls |-> << >>, end |-> "ok"], root, 1),
            1)

\* draw: the buffer and the indices of the nodes in the arena are cleared,
\* then the tree is drawn from the root at nesting 1 (visual_debug is off)
Draw(p, root, checks) ==
    DrawRun(DrawNode([pool |-> ClearIndices(p), cmds |-> << >>,
                      checks |-> checks, calls |-> << >>, end |-> "ok"],
                     root, 1),
            1)

----------------------------------------------------------------------------
(* Hit testing *)

\* DrawingContext::is_command_contains_point
IsCommandContainsPoint(command, pt) ==
    /\ pt.x >= command.rect.x /\ pt.x <= command.rect.x + command.rect.w
    /\ pt.y >= command.rect.y /\ pt.y <= command.rect.y + command.rect.h

\* a command of the node of this kind holds the point
HasCommandAt(cmds, widget, kind, pt) ==
    \E k \in 1..Len(widget.command_indices) :
        LET command_index == widget.command_indices[k]
        IN  /\ command_index < Len(cmds)
            /\ cmds[command_index + 1].kind = kind
            /\ IsCommandContainsPoint(cmds[command_index + 1], pt)

\* a clip test that looks at the clip commands of the node only
IsNodeClippedLocal(p, cmds, node_handle, pt) ==
    LET widget == Node(p, node_handle)
    IN  IF ~widget.global_visibility THEN TRUE
        ELSE ~HasCommandAt(cmds, widget, "Clip", pt)

RECURSIVE IsNodeClipped(_, _, _, _)
IsNodeClipped(p, cmds, node_handle, pt) ==
    LET widget == Node(p, node_handle)
    IN  IF ~widget.global_visibility THEN TRUE
        ELSE
          LET clipped == ~HasCommandAt(cmds, widget, "Clip", pt)
          IN  IF ~IsNone(widget.parent) /\ ~clipped
              THEN clipped \/ IsNodeClipped(p, cmds, widget.parent, pt)
              ELSE clipped

\* a containment test that does not look at the clip commands
IsNodeContainsPointUnclipped(p, cmds, node_handle, pt) ==
    LET widget == Node(p, node_handle)
    IN  IF ~widget.global_visibility THEN FALSE
        ELSE HasCommandAt(cmds, widget, "Geometry", pt)

IsNodeContainsPoint(p, cmds, node_handle, pt) ==
    LET widget == Node(p, node_handle)
    IN  IF ~widget.global_visibility THEN FALSE
        ELSE IF ~IsNodeClipped(p, cmds, node_handle, pt)
        THEN HasCommandAt(cmds, widget, "Geometry", pt)
        ELSE FALSE

RECURSIVE PickNode(_, _, _, _, _)
RECURSIVE PickChildren(_, _, _, _, _, _, _)

\* the loop over the children: level is the counter every call shares
PickChildren(p, cmds, children, pt, level, picked, topmost_picked_level) ==
    IF children = << >> THEN [picked |-> picked, level |-> level]
    ELSE
      LET r == PickNode(p, cmds, Head(children), pt, level + 1)
          wins == ~IsNone(r.picked) /\ r.level > topmost_picked_level
      IN  PickChildren(p, cmds, Tail(children), pt, r.level,
                       IF wins THEN r.picked ELSE picked,
                       IF wins THEN r.level ELSE topmost_picked_level)

\* a pick that stops at the first node that contains the point
PickNodeOwnFirst(p, cmds, node_handle, pt, level) ==
    LET widget == Node(p, node_handle)
    IN  IF ~widget.is_hit_test_visible
        THEN [picked |-> NONE, level |-> level]
        ELSE IF IsNodeContainsPoint(p, cmds, node_handle, pt)
        THEN [picked |-> node_handle, level |-> level]
        ELSE PickChildren(p, cmds, widget.children, pt, level, NONE, 0)

PickNode(p, cmds, node_handle, pt, level) ==
    LET widget == Node(p, node_handle)
    IN  IF ~widget.is_hit_test_visible
        THEN [picked |-> NONE, level |-> level]
        ELSE IF IsNodeContainsPoint(p, cmds, node_handle, pt)
        THEN PickChildren(p, cmds, widget.children, pt, level, node_handle, level)
        ELSE PickChildren(p, cmds, widget.children, pt, level, NONE, 0)

\* a hit test that forgets the capture
HitTestPick(valid, p, cmds, captured, root, pt) ==
    PickNode(p, cmds, root, pt, 0).picked

\* hit_test; valid is the answer of is_valid_handle(captured_node)
HitTest(valid, p, cmds, captured, root, pt) ==
    IF valid THEN captured
    ELSE PickNode(p, cmds, root, pt, 0).picked

\* the borrows of a pick: is_node_clipped, and pick_node itself, borrow the
\* node they are given, and a borrow of a vacant slot fails fatally
RECURSIVE ClipPanics(_, _, _, _)
ClipPanics(p, cmds, node_handle, pt) ==
    \/ ~BorrowOk(p, node_handle)
    \/ LET widget == Node(p, node_handle)
       IN  /\ widget.global_visibility
           /\ HasCommandAt(cmds, widget, "Clip", pt)
           /\ ~IsNone(widget.parent)
           /\ ClipPanics(p, cmds, widget.parent, pt)

RECURSIVE PickPanics(_, _, _, _)
PickPanics(p, cmds, node_handle, pt) ==
    \/ ~BorrowOk(p, node_handle)
    \/ LET widget == Node(p, node_handle)
       IN  /\ widget.is_hit_test_visible
           /\ \/ widget.global_visibility /\ ClipPanics(p, cmds, node_handle, pt)
              \/ \E k \in 1..Len(widget.children) :
                    PickPanics(p, cmds, widget.children[k], pt)

HitTestPanics(valid, p, cmds, captured, root, pt) ==
    ~valid /\ PickPanics(p, cmds, root, pt)

----------------------------------------------------------------------------
(* Searches: find_by_criteria_down, find_by_criteria_up and the searches  *)
(* by name.  A criterion is the set of the names it accepts.  A search    *)
(* returns a handle ("ok"), fails on the borrow of a vacant slot or of    *)
(* the null handle ("panic"), or recurses without end ("overflow"): path  *)
(* holds the nodes the calls in progress have been given.                 *)

Satisfies(func, widget) == widget.name \in func

Found(h) == [ret |-> "ok", handle |-> h]

Failed(how) == [ret |-> how, handle |-> NONE]

RECURSIVE FindByCriteriaDown(_, _, _, _)
RECURSIVE FindInChildren(_, _, _, _)

\* the loop over the children: the first child that finds a node ends it
FindInChildren(p, children, func, path) ==
    IF children = << >> THEN Found(NONE)
    ELSE
      LET result == FindByCriteriaDown(p, Head(children), func, path)
      IN  IF result.ret # "ok" \/ IsSome(result.handle) THEN result
          ELSE FindInChildren(p, Tail(children), func, path)

FindByCriteriaDown(p, node_handle, func, path) ==
    IF ~BorrowOk(p, node_handle) THEN Failed("panic")
    ELSE IF node_handle \in path THEN Failed("overflow")
    ELSE IF Satisfies(func, Node(p, node_handle)) THEN Found(node_handle)
    ELSE FindInChildren(p, Node(p, node_handle).children, func,
                        path \cup {node_handle})

RECURSIVE FindByCriteriaUp(_, _, _, _)
FindByCriteriaUp(p, node_handle, func, path) ==
    IF ~BorrowOk(p, node_handle) THEN Failed("panic")
    ELSE IF node_handle \in path THEN Failed("overflow")
    ELSE IF Satisfies(func, Node(p, node_handle)) THEN Found(node_handle)
    ELSE FindByCriteriaUp(p, Node(p, node_handle).parent, func,
                          path \cup {node_handle})

FindByNameUp(p, node_handle, name) ==
    FindByCriteriaUp(p, node_handle, {name}, {})

FindByNameDown(p, node_handle, name) ==
    FindByCriteriaDown(p, node_handle, {name}, {})

\* borrow_by_name_up, borrow_by_name_down: the borrow of what the search
\* returns
BorrowFound(p, result) ==
    IF result.ret = "ok" /\ ~BorrowOk(p, result.handle) THEN Failed("panic")
    ELSE result

----------------------------------------------------------------------------
(* Events (gui::event::UIEvent) *)

UIEvent(kind, pos, arg, source) ==
    [ handled |-> FALSE, kind |-> kind, pos |-> pos, arg |-> arg,
      target |-> NONE, source |-> source ]

\* UIEvent::targeted(target, kind): what a caller hands to send_event
Targeted(target, arg) ==
    [ handled |-> FALSE, kind |-> "Custom", pos |-> Vec2Zero, arg |-> arg,
      target |-> target, source |-> NONE ]


----------------------------------------------------------------------------
(* Calls in progress.  A frame is one poll_ui_event call that popped an   *)
(* event: evt is the event, i the slot the loop is at, cap the capacity   *)
(* the loop's range was built from, held the node taken out of slot i     *)
(* while its handler runs, visited the handles handle_event was called    *)
(* with, seq the number of the pop and present the slots that were        *)
(* occupied when it popped.                                               *)

Top == stack[Len(stack)]

AtHost == stack = << >>

InHandler == stack # << >> /\ Top.held # None

\* a call of the interface can be made: by the host between polls, or by
\* the handler that is running
CanCall == ~panicked /\ (AtHost \/ (InHandler /\ hcalls < MaxHandlerCalls))

Counted == hcalls' = hcalls + (IF InHandler THEN 1 ELSE 0)

HeldHandles == {stack[k].i : k \in {n \in 1..Len(stack) : stack[n].held # None}}

Called(op, arg, ret) ==
    [op |-> op, arg |-> arg, ret |-> ret, evt |-> None, input |-> None]

RECURSIVE PendingInPool(_, _)
PendingInPool(p, i) ==
    IF i > Len(p) THEN 0
    ELSE (IF p[i] = None THEN 0 ELSE Len(p[i][1].events)) + PendingInPool(p, i + 1)

RECURSIVE PendingInStack(_, _)
PendingInStack(st, k) ==
    IF k > Len(st) THEN 0
    ELSE (IF st[k].held = None THEN 0 ELSE Len(st[k].held[1].events))
         + PendingInStack(st, k + 1)

\* events made so far: the bound on the run
EventsMade == Len(sent) + PendingInPool(pool, 1) + PendingInStack(stack, 1)

\* the payload of the next event a caller makes: callers make distinct events
FreshArg == EventsMade + 1

----------------------------------------------------------------------------
(* process_input_event *)

\* MouseButton::Left, VirtualKeyCode::A, the character 'a', one line of wheel
ButtonLeft == 1

KeyA == 65

CharA == 97

OneLine == 100

WindowEvent(type, state, position, delta, keycode) ==
    [ type |-> type, state |-> state, button |-> ButtonLeft,
      position |-> position, delta |-> delta, amount |-> OneLine,
      virtual_keycode |-> keycode, char |-> CharA ]

\* the points the cursor is moved to
Points == {Vec2(100, 100), Vec2(300, 100), Vec2(500, 100)}

CursorEvents ==
    {WindowEvent("CursorMoved", "none", pt, "none", None) : pt \in Points}

PressEvent == WindowEvent("MouseInput", "Pressed", Vec2Zero, "none", None)

PointerEvents == CursorEvents \cup {PressEvent}

KeyEvents ==
    {WindowEvent("KeyboardInput", st, Vec2Zero, "none", k) :
        st \in {"Pressed", "Released"}, k \in {None, Some(KeyA)}}
    \cup {WindowEvent("ReceivedCharacter", "none", Vec2Zero, "none", None)}

OtherEvents ==
    {WindowEvent("MouseInput", "Released", Vec2Zero, "none", None),
     WindowEvent("Focused", "none", Vec2Zero, "none", None)}
    \cup {WindowEvent("MouseWheel", "none", Vec2Zero, d, None) :
        d \in {"LineDelta", "PixelDelta"}}

WindowEvents == PointerEvents \cup KeyEvents \cup OtherEvents

\* ui is the record of the fields the call reads and writes; pushed are the
\* events it appends to the shared queue, in order
\* a press that leaves the keyboard focus where it was
PressedInputKeepingFocus(ui, event) ==
    LET picked == HitTest(IsValidHandle(ui.pool, ui.captured_node), ui.pool,
                          ui.commands, ui.captured_node, ui.root_canvas, ui.mouse_position)
        hit == ~IsNone(picked)
    IN  [ ui EXCEPT
            !.picked_node = picked,
            !.pushed = IF hit
                       THEN <<UIEvent("MouseDown", ui.mouse_position,
                                      event.button, picked)>>
                       ELSE << >>,
            !.event_processed = hit ]

PressedInput(ui, event) ==
    LET picked == HitTest(IsValidHandle(ui.pool, ui.captured_node), ui.pool,
                          ui.commands, ui.captured_node, ui.root_canvas, ui.mouse_position)
        hit == ~IsNone(picked)
    IN  [ ui EXCEPT
            !.picked_node = picked,
            !.keyboard_focus_node = picked,
            !.pushed = IF hit
                       THEN <<UIEvent("MouseDown", ui.mouse_position,
                                      event.button, picked)>>
                       ELSE << >>,
            !.event_processed = hit ]

\* a release that forgets the picked node once it has told it
ReleasedInputClearingPick(ui, event) ==
    IF ~IsNone(ui.picked_node)
    THEN [ ui EXCEPT
             !.pushed = <<UIEvent("MouseUp", ui.mouse_position, event.button,
                                  ui.picked_node)>>,
             !.picked_node = NONE,
             !.event_processed = TRUE ]
    ELSE ui

ReleasedInput(ui, event) ==
    IF ~IsNone(ui.picked_node)
    THEN [ ui EXCEPT
             !.pushed = <<UIEvent("MouseUp", ui.mouse_position, event.button,
                                  ui.picked_node)>>,
             !.event_processed = TRUE ]
    ELSE ui

\* a cursor move that never tells the node the cursor left that it did
CursorMovedWithoutLeave(ui, event) ==
    LET mouse == event.position
        picked == HitTest(IsValidHandle(ui.pool, ui.captured_node), ui.pool,
                          ui.commands, ui.captured_node, ui.root_canvas, mouse)
        fire_mouse_enter ==
            ~IsNone(picked) /\ ~Node(ui.pool, picked).is_mouse_over
    IN  [ ui EXCEPT
            !.mouse_position = mouse,
            !.picked_node = picked,
            !.pool = IF fire_mouse_enter
                     THEN SetNode(ui.pool, picked,
                             [Node(ui.pool, picked) EXCEPT !.is_mouse_over = TRUE])
                     ELSE ui.pool,
            !.pushed =
                (IF fire_mouse_enter
                 THEN <<UIEvent("MouseEnter", Vec2Zero, 0, picked)>>
                 ELSE << >>)
                \o (IF ~IsNone(picked)
                    THEN <<UIEvent("MouseMove", mouse, 0, picked)>> ELSE << >>),
            !.event_processed = ~IsNone(picked) ]

CursorMoved(ui, event) ==
    LET mouse == event.position
        picked == HitTest(IsValidHandle(ui.pool, ui.captured_node), ui.pool,
                          ui.commands, ui.captured_node, ui.root_canvas, mouse)
        prev == ui.prev_picked_node
        fire_mouse_leave ==
            /\ picked # prev
            /\ IsSome(prev)
            /\ Node(ui.pool, prev).is_mouse_over
        p1 == IF fire_mouse_leave
              THEN SetNode(ui.pool, prev,
                      [Node(ui.pool, prev) EXCEPT !.is_mouse_over = FALSE])
              ELSE ui.pool
        fire_mouse_enter == ~IsNone(picked) /\ ~Node(p1, picked).is_mouse_over
        p2 == IF fire_mouse_enter
              THEN SetNode(p1, picked,
                      [Node(p1, picked) EXCEPT !.is_mouse_over = TRUE])
              ELSE p1
    IN  [ ui EXCEPT
            !.mouse_position = mouse,
            !.picked_node = picked,
            !.pool = p2,
            !.pushed =
                (IF fire_mouse_leave
                 THEN <<UIEvent("MouseLeave", Vec2Zero, 0, prev)>> ELSE << >>)
                \o (IF fire_mouse_enter
                    THEN <<UIEvent("MouseEnter", Vec2Zero, 0, picked)>>
                    ELSE << >>)
                \o (IF ~IsNone(picked)
                    THEN <<UIEvent("MouseMove", mouse, 0, picked)>> ELSE << >>),
            !.event_processed = ~IsNone(picked) ]

MouseWheelInput(ui, event) ==
    IF event.delta = "LineDelta" /\ ~IsNone(ui.picked_node)
    THEN [ ui EXCEPT
             !.pushed = <<UIEvent("MouseWheel", ui.mouse_position,
                                  event.amount, ui.picked_node)>>,
             !.event_processed = TRUE ]
    ELSE ui

\* keyboard input that does not look at the focus
KeyboardInputUnfocused(ui, event) ==
    IF event.virtual_keycode # None
    THEN [ ui EXCEPT
             !.pushed = <<UIEvent(IF event.state = "Pressed"
                                  THEN "KeyDown" ELSE "KeyUp",
                                  Vec2Zero, event.virtual_keycode[1],
                                  ui.keyboard_focus_node)>>,
             !.event_processed = TRUE ]
    ELSE ui

KeyboardInput(ui, event) ==
    IF IsSome(ui.keyboard_focus_node) /\ event.virtual_keycode # None
    THEN [ ui EXCEPT
             !.pushed = <<UIEvent(IF event.state = "Pressed"
                                  THEN "KeyDown" ELSE "KeyUp",
                                  Vec2Zero, event.virtual_keycode[1],
                                  ui.keyboard_focus_node)>>,
             !.event_processed = TRUE ]
    ELSE ui

ReceivedCharacter(ui, event) ==
    IF IsSome(ui.keyboard_focus_node)
    THEN [ ui EXCEPT
             !.pushed = <<UIEvent("Text", Vec2Zero, event.char,
                                  ui.keyboard_focus_node)>>,
             !.event_processed = TRUE ]
    ELSE ui

ProcessInputEvent(ui, event) ==
    LET r == CASE event.type = "MouseInput" /\ event.state = "Pressed" ->
                    PressedInput(ui, event)
               [] event.type = "MouseInput" /\ event.state = "Released" ->
                    ReleasedInput(ui, event)
               [] event.type = "CursorMoved" -> CursorMoved(ui, event)
               [] event.type = "MouseWheel" -> MouseWheelInput(ui, event)
               [] event.type = "KeyboardInput" -> KeyboardInput(ui, event)
               [] event.type = "ReceivedCharacter" -> ReceivedCharacter(ui, event)
               [] OTHER -> ui
    IN  [r EXCEPT !.prev_picked_node = r.picked_node]

\* the fields of the interface process_input_event works on
UiRecord ==
    [ pool |-> pool, commands |-> commands, root_canvas |-> root_canvas,
      captured_node |-> captured_node, picked_node |-> picked_node,
      prev_picked_node |-> prev_picked_node,
      keyboard_focus_node |-> keyboard_focus_node,
      mouse_position |-> mouse_position,
      pushed |-> << >>, event_processed |-> FALSE ]

----------------------------------------------------------------------------
(* Initial state: UserInterface::new() *)

Init ==
    LET r == AddNode(<< >>, NONE, NewWidget(DefaultTemplate))
    IN  /\ pool = r.pool
        /\ root_canvas = r.handle
        /\ picked_node = NONE
        /\ prev_picked_node = NONE
        /\ captured_node = NONE
        /\ keyboard_focus_node = NONE
        /\ mouse_position = Vec2Zero
        /\ events = << >>
        /\ commands = << >>
        /\ stack = << >>
        /\ panicked = FALSE
        /\ hcalls = 0
        /\ sent = << >>
        /\ popped = << >>
        /\ returned = << >>
        /\ last = Called("new", r.handle, "ok")

----------------------------------------------------------------------------
(* Tree operations *)

\* the child lists a new node may carry (WidgetBuilder::with_child)
NoChildren == {<< >>}

ChildLists == {<< >>} \cup {<<h>> : h \in 1..Len(pool)}

DoAddNode(caller, limit, templates, lists) ==
    /\ caller
    /\ CanCall
    /\ Len(pool) < limit
    /\ \E t \in templates, children \in lists :
         LET r == AddNode(pool, root_canvas,
                          [NewWidget(t) EXCEPT !.children = children])
         IN  /\ pool' = r.pool
             /\ panicked' = r.panic
             /\ last' = Called("add_node", r.handle,
                               IF r.panic THEN "panic" ELSE "ok")
    /\ Counted
    /\ UNCHANGED stack
    /\ UNCHANGED <<root_canvas, picked_node, prev_picked_node, captured_node,
                   keyboard_focus_node, mouse_position, events, commands,
                   sent, popped, returned>>

\* link_nodes(child_handle, parent_handle) with one of the pairs of handles
DoLinkNodesAmong(caller, pairs) ==
    /\ caller
    /\ CanCall
    /\ \E pair \in pairs :
         LET child_handle == pair[1]
             parent_handle == pair[2]
             r == LinkNodes(pool, child_handle, parent_handle)
         IN  /\ pool' = r.pool
             /\ panicked' = r.panic
             /\ last' = Called("link_nodes", child_handle,
                               IF r.panic THEN "panic" ELSE "ok")
    /\ Counted
    /\ UNCHANGED stack
    /\ UNCHANGED <<root_canvas, picked_node, prev_picked_node, captured_node,
                   keyboard_focus_node, mouse_position, events, commands,
                   sent, popped, returned>>

DoLinkNodes(caller) ==
    DoLinkNodesAmong(caller, (1..Len(pool)) \X (1..Len(pool)))

DoUnlinkNode(caller) ==
    /\ caller
    /\ CanCall
    /\ \E node_handle \in 1..Len(pool) :
         LET r == UnlinkNode(pool, node_handle)
         IN  /\ pool' = r.pool
             /\ panicked' = r.panic
             /\ last' = Called("unlink_node", node_handle,
                               IF r.panic THEN "panic" ELSE "ok")
    /\ Counted
    /\ UNCHANGED stack
    /\ UNCHANGED <<root_canvas, picked_node, prev_picked_node, captured_node,
                   keyboard_focus_node, mouse_position, events, commands,
                   sent, popped, returned>>

\* get_node / get_node_mut: a borrow through a handle
DoGetNode(caller) ==
    /\ caller
    /\ CanCall
    /\ \E node_handle \in 1..Len(pool) :
         /\ panicked' = ~BorrowOk(pool, node_handle)
         /\ last' = Called("get_node", node_handle,
                           IF BorrowOk(pool, node_handle) THEN "ref" ELSE "panic")
    /\ Counted
    /\ UNCHANGED stack
    /\ UNCHANGED <<pool, root_canvas, picked_node, prev_picked_node,
                   captured_node, keyboard_focus_node, mouse_position, events,
                   commands, sent, popped, returned>>

----------------------------------------------------------------------------
(* Searches *)

\* the names of the widgets and of the searches; no widget is named "none"
WidgetNames == {"a", "b"}

SearchNames == WidgetNames \cup {"none"}

\* the criteria that are not the test of one name
Criteria == {{}, WidgetNames}

FindCall(op, node_handle, func, result) ==
    [ op |-> op, arg |-> result.handle, ret |-> result.ret, evt |-> None,
      input |-> Some([start |-> node_handle, func |-> func]) ]

DoFindDown(caller) ==
    /\ caller
    /\ CanCall
    /\ \E node_handle \in 1..Len(pool) :
         \/ \E func \in Criteria :
               LET result == FindByCriteriaDown(pool, node_handle, func, {})
               IN  /\ last' = FindCall("find_by_criteria_down", node_handle,
                                       func, result)
                   /\ panicked' = (result.ret # "ok")
         \/ \E name \in SearchNames :
               LET result == FindByNameDown(pool, node_handle, name)
               IN  /\ last' = FindCall("find_by_name_down", node_handle,
                                       {name}, result)
                   /\ panicked' = (result.ret # "ok")
         \/ \E name \in SearchNames :
               LET result == BorrowFound(pool,
                                 FindByNameDown(pool, node_handle, name))
               IN  /\ last' = FindCall("borrow_by_name_down", node_handle,
                                       {name}, result)
                   /\ panicked' = (result.ret # "ok")
    /\ Counted
    /\ UNCHANGED <<pool, root_canvas, picked_node, prev_picked_node,
                   captured_node, keyboard_focus_node, mouse_position, events,
                   commands, stack, sent, popped, returned>>

DoFindUp(caller) ==
    /\ caller
    /\ CanCall
    /\ \E node_handle \in 1..Len(pool) :
         \/ \E func \in Criteria :
               LET result == FindByCriteriaUp(pool, node_handle, func, {})
               IN  /\ last' = FindCall("find_by_criteria_up", node_handle,
                                       func, result)
                   /\ panicked' = (result.ret # "ok")
         \/ \E name \in SearchNames :
               LET result == FindByNameUp(pool, node_handle, name)
               IN  /\ last' = FindCall("find_by_name_up", node_handle,
                                       {name}, result)
                   /\ panicked' = (result.ret # "ok")
         \/ \E name \in SearchNames :
               LET result == BorrowFound(pool,
                                 FindByNameUp(pool, node_handle, name))
               IN  /\ last' = FindCall("borrow_by_name_up", node_handle,
                                       {name}, result)
                   /\ panicked' = (result.ret # "ok")
    /\ Counted
    /\ UNCHANGED <<pool, root_canvas, picked_node, prev_picked_node,
                   captured_node, keyboard_focus_node, mouse_position, events,
                   commands, stack, sent, popped, returned>>

----------------------------------------------------------------------------
(* Mouse capture *)

\* a capture that overwrites the holder
CaptureMouseAlways(captured, node) ==
    [captured_node |-> node, result |-> TRUE]

CaptureMouse(captured, node) ==
    IF IsNone(captured)
    THEN [captured_node |-> node, result |-> TRUE]
    ELSE [captured_node |-> captured, result |-> FALSE]

DoCaptureMouse(caller) ==
    /\ caller
    /\ CanCall
    /\ \E node \in 0..Len(pool) :
         LET r == CaptureMouse(captured_node, node)
         IN  /\ captured_node' = r.captured_node
             /\ last' = Called("capture_mouse", node,
                               IF r.result THEN "true" ELSE "false")
    /\ Counted
    /\ UNCHANGED stack
    /\ UNCHANGED <<pool, root_canvas, picked_node, prev_picked_node,
                   keyboard_focus_node, mouse_position, events, commands,
                   panicked, sent, popped, returned>>

DoReleaseMouseCapture(caller) ==
    /\ caller
    /\ CanCall
    /\ captured_node' = NONE
    /\ last' = Called("release_mouse_capture", NONE, "ok")
    /\ Counted
    /\ UNCHANGED stack
    /\ UNCHANGED <<pool, root_canvas, picked_node, prev_picked_node,
                   keyboard_focus_node, mouse_position, events, commands,
                   panicked, sent, popped, returned>>


----------------------------------------------------------------------------
(* The shared queue: send_event, and the queues of the nodes *)

DoSendEvent(caller) ==
    /\ caller
    /\ CanCall
    /\ EventsMade < MaxEvents
    /\ LET event == Targeted(root_canvas, FreshArg)
       IN  /\ events' = Append(events, event)
           /\ sent' = Append(sent, event)
    /\ last' = Called("send_event", NONE, "ok")
    /\ Counted
    /\ UNCHANGED stack
    /\ UNCHANGED <<pool, root_canvas, picked_node, prev_picked_node,
                   captured_node, keyboard_focus_node, mouse_position,
                   commands, panicked, popped, returned>>

\* a control pushes an event into the queue of its widget (widget.events);
\* the source it writes is overwritten when the event is gathered
DoNodeEmit(caller) ==
    /\ caller
    /\ CanCall
    /\ EventsMade < MaxEvents
    /\ \E h \in 1..Len(pool) :
         /\ BorrowOk(pool, h)
         /\ pool' = SetNode(pool, h,
                [Node(pool, h) EXCEPT
                    !.events = Append(@, Targeted(NONE, FreshArg))])
    /\ last' = Called("node_emit", NONE, "ok")
    /\ Counted
    /\ UNCHANGED stack
    /\ UNCHANGED <<root_canvas, picked_node, prev_picked_node, captured_node,
                   keyboard_focus_node, mouse_position, events, commands,
                   panicked, sent, popped, returned>>

\* the control whose handler runs pushes an event into its own queue
DoSelfEmit ==
    /\ ~panicked
    /\ InHandler
    /\ EventsMade < MaxEvents
    /\ stack' = [stack EXCEPT
            ![Len(stack)].held = Some([@[1] EXCEPT
                !.events = Append(@, Targeted(NONE, FreshArg))])]
    /\ UNCHANGED hcalls
    /\ last' = Called("self_emit", NONE, "ok")
    /\ UNCHANGED <<pool, root_canvas, picked_node, prev_picked_node,
                   captured_node, keyboard_focus_node, mouse_position, events,
                   commands, panicked, sent, popped, returned>>

\* the handler marks the event it was given (evt is a &mut UIEvent)
DoMarkHandled ==
    /\ ~panicked
    /\ InHandler
    /\ ~Top.evt.handled
    /\ stack' = [stack EXCEPT ![Len(stack)].evt.handled = TRUE]
    /\ UNCHANGED hcalls
    /\ last' = Called("mark_handled", NONE, "ok")
    /\ UNCHANGED <<pool, root_canvas, picked_node, prev_picked_node,
                   captured_node, keyboard_focus_node, mouse_position, events,
                   commands, panicked, sent, popped, returned>>

----------------------------------------------------------------------------
(* poll_ui_event *)

\* a gathering that leaves the source the control wrote
Unstamped(q, handle) == q

RECURSIVE Stamp(_, _)
Stamp(q, handle) ==
    IF q = << >> THEN << >>
    ELSE <<[Head(q) EXCEPT !.source = handle]>> \o Stamp(Tail(q), handle)

\* the events of the occupied slots from slot i on, in slot order
RECURSIVE GatherEvents(_, _)
GatherEvents(p, i) ==
    IF i > Len(p) THEN << >>
    ELSE (IF p[i] = None THEN << >> ELSE Stamp(p[i][1].events, i))
         \o GatherEvents(p, i + 1)

RECURSIVE ClearEvents(_)
ClearEvents(p) ==
    IF p = << >> THEN << >>
    ELSE <<IF Head(p) = None THEN None
           ELSE Some([Head(p)[1] EXCEPT !.events = << >>])>>
         \o ClearEvents(Tail(p))

OccupiedSlots(p) == {i \in 1..Len(p) : p[i] # None}

PopBack(q) ==
    IF q = << >> THEN [event |-> None, rest |-> q]
    ELSE [event |-> Some(q[Len(q)]), rest |-> SubSeq(q, 1, Len(q) - 1)]

\* VecDeque::pop_front on the shared queue
PopFront(q) ==
    IF q = << >> THEN [event |-> None, rest |-> q]
    ELSE [event |-> Some(Head(q)), rest |-> Tail(q)]

\* the first part of poll_ui_event: gather, then pop
PollBegin(caller) ==
    /\ caller
    /\ CanCall
    /\ Len(stack) < MaxDepth
    /\ LET gathered == GatherEvents(pool, 1)
           p1 == ClearEvents(pool)
           front == PopFront(events \o gathered)
       IN  /\ pool' = p1
           /\ sent' = sent \o gathered
           /\ events' = front.rest
           /\ IF front.event = None
              THEN /\ stack' = stack
                   /\ last' = Called("poll_ui_event", 0, "none")
                   /\ UNCHANGED popped
              ELSE /\ popped' = Append(popped, front.event[1])
                   /\ stack' = Append(stack,
                        [ evt |-> front.event[1], i |-> 1, cap |-> GetCapacity(p1),
                          held |-> None, visited |-> << >>,
                          seq |-> Len(popped) + 1,
                          present |-> OccupiedSlots(p1) ])
                   /\ last' = Called("pop", Len(popped) + 1, "some")
    /\ Counted
    /\ UNCHANGED <<root_canvas, picked_node, prev_picked_node, captured_node,
                   keyboard_focus_node, mouse_position, commands, panicked,
                   returned>>

\* the slots the loop of the innermost call has still to take a node from
SlotsLeft == {j \in Top.i..Top.cap : pool[j] # None}

Greatest(S) == CHOOSE j \in S : \A k \in S : j >= k

\* the slot a loop over 0..capacity meets first
Least(S) == CHOOSE j \in S : \A k \in S : j <= k

\* a loop that borrowed the node where it is instead of taking it out
HandlerEnterInPlace ==
    /\ ~panicked
    /\ stack # << >>
    /\ Top.held = None
    /\ SlotsLeft # {}
    /\ LET j == Least(SlotsLeft)
       IN  /\ stack' = [stack EXCEPT
                ![Len(stack)].i = j,
                ![Len(stack)].held = pool[j],
                ![Len(stack)].visited = Append(@, HandleFromIndex(pool, j))]
           /\ last' = Called("handle_event", HandleFromIndex(pool, j), "running")
    /\ UNCHANGED <<pool, root_canvas, picked_node, prev_picked_node,
                   captured_node, keyboard_focus_node, mouse_position, events,
                   commands, panicked, hcalls, sent, popped, returned>>

\* the loop reaches the next occupied slot: take_at, then handle_event
HandlerEnter ==
    /\ ~panicked
    /\ stack # << >>
    /\ Top.held = None
    /\ SlotsLeft # {}
    /\ LET j == Least(SlotsLeft)
           t == TakeAt(pool, j)
       IN  /\ pool' = t.pool
           /\ stack' = [stack EXCEPT
                ![Len(stack)].i = j,
                ![Len(stack)].held = t.node,
                ![Len(stack)].visited = Append(@, HandleFromIndex(pool, j))]
           /\ last' = Called("handle_event", HandleFromIndex(pool, j), "running")
    /\ UNCHANGED <<root_canvas, picked_node, prev_picked_node, captured_node,
                   keyboard_focus_node, mouse_position, events, commands,
                   panicked, hcalls, sent, popped, returned>>

\* handle_event returns: replace_at, and the assertion on what it replaced
HandlerReturn ==
    /\ ~panicked
    /\ InHandler
    /\ LET r == ReplaceAt(pool, Top.i, Top.held[1])
       IN  /\ pool' = r.pool
           /\ panicked' = (r.old # None)
           /\ last' = Called("handler_return", Top.i,
                             IF r.old # None THEN "panic" ELSE "ok")
    /\ stack' = [stack EXCEPT ![Len(stack)].i = @ + 1,
                              ![Len(stack)].held = None]
    /\ UNCHANGED <<root_canvas, picked_node, prev_picked_node, captured_node,
                   keyboard_focus_node, mouse_position, events, commands,
                   hcalls, sent, popped, returned>>

\* the loop is over: poll_ui_event returns the event
PollReturn ==
    /\ ~panicked
    /\ stack # << >>
    /\ Top.held = None
    /\ SlotsLeft = {}
    /\ stack' = SubSeq(stack, 1, Len(stack) - 1)
    /\ returned' = Append(returned,
            [ seq |-> Top.seq, depth |-> Len(stack), visited |-> Top.visited,
              present |-> Top.present ])
    /\ last' = [op |-> "poll_ui_event", arg |-> Top.seq, ret |-> "some",
                evt |-> Some(Top.evt), input |-> None]
    /\ UNCHANGED <<pool, root_canvas, picked_node, prev_picked_node,
                   captured_node, keyboard_focus_node, mouse_position, events,
                   commands, panicked, hcalls, sent, popped>>

----------------------------------------------------------------------------
(* Specifications *)

PlainTemplates == {DefaultTemplate}

\* the queues: the host builds nodes, queues events and polls; the handlers
\* that run queue events, mark the event and poll
NextPoll ==
    \/ DoAddNode(TRUE, MaxQueueNodes, PlainTemplates, NoChildren)
    \/ DoSendEvent(TRUE)
    \/ DoNodeEmit(TRUE)
    \/ DoSelfEmit
    \/ DoMarkHandled
    \/ PollBegin(TRUE)
    \/ HandlerEnter
    \/ HandlerReturn
    \/ PollReturn

SpecPoll == Init /\ [][NextPoll]_vars

\* dispatch: the host builds nodes, queues events and polls; the handlers
\* that run change the tree, borrow nodes, capture the mouse and poll
NextDispatch ==
    \/ DoAddNode(TRUE, MaxNodes, PlainTemplates, ChildLists)
    \/ DoLinkNodes(InHandler)
    \/ DoUnlinkNode(InHandler)
    \/ DoGetNode(InHandler)
    \/ DoCaptureMouse(InHandler)
    \/ DoReleaseMouseCapture(InHandler)
    \/ DoSendEvent(TRUE)
    \/ PollBegin(TRUE)
    \/ HandlerEnter
    \/ HandlerReturn
    \/ PollReturn

SpecDispatch == Init /\ [][NextDispatch]_vars


----------------------------------------------------------------------------
(* Properties of dispatch *)

Ascending(q) == \A a, b \in 1..Len(q) : a < b => q[a] < q[b]

\* C1: while the handler of the node of slot i runs, slot i is vacant, a
\* borrow of the node through its own handle panics and yields no reference,
\* and every node whose handler is not running can be borrowed.
SelfAliasSafety ==
    /\ \A k \in 1..Len(stack) :
          stack[k].held # None =>
             /\ pool[stack[k].i] = None
             /\ ~BorrowOk(pool, HandleFromIndex(pool, stack[k].i))
    /\ \A h \in 1..Len(pool) : h \notin HeldHandles => BorrowOk(pool, h)
    /\ last.op = "get_node" =>
          /\ last.arg \in HeldHandles <=> last.ret = "panic"
          /\ last.arg \notin HeldHandles <=> last.ret = "ref"
          /\ last.ret = "panic" => panicked

\* a handler tried to borrow its own node and the program stopped
SelfBorrowPanicked ==
    /\ InHandler
    /\ last = Called("get_node", Top.i, "panic")
    /\ panicked
    /\ Len(pool) >= 2

\* C2: polls pop the shared queue in the order the events were appended,
\* one event per poll and each event once; a poll returns the event it
\* popped; a poll that finds the queue empty returns nothing and starts no
\* handler.
PollFifo ==
    /\ sent = popped \o events
    /\ Len(popped) = Len(returned) + Len(stack)
    /\ {returned[k].seq : k \in 1..Len(returned)}
          \cup {stack[k].seq : k \in 1..Len(stack)} = 1..Len(popped)
    /\ \A a, b \in 1..Len(returned) :
          (a < b /\ returned[a].depth = 1 /\ returned[b].depth = 1)
             => returned[a].seq < returned[b].seq
    /\ \A k \in 1..Len(stack) :
          [stack[k].evt EXCEPT !.handled = FALSE] = popped[stack[k].seq]
    /\ (last.op = "poll_ui_event" /\ last.ret = "some") =>
          [last.evt[1] EXCEPT !.handled = FALSE] = popped[last.arg]
    /\ (last.op = "poll_ui_event" /\ last.ret = "none") =>
          /\ events = << >>
          /\ PendingInPool(pool, 1) = 0
          /\ last.evt = None

\* two events were queued and two polls of the host returned them in order
TwoPollsReturned ==
    /\ AtHost
    /\ Len(returned) = 2
    /\ returned[1].seq = 1 /\ returned[2].seq = 2
    /\ returned[1].depth = 1 /\ returned[2].depth = 1
    /\ popped[1] # popped[2]

\* C3: a poll that pops an event calls the handler of every slot that is
\* occupied when the event is popped, once, with the handle of the slot, in
\* ascending slot order, and returns the event after the last of them; the
\* slots it calls are these and no others.
DispatchOrder ==
    /\ \A k \in 1..Len(stack) :
          /\ Ascending(stack[k].visited)
          /\ Range(stack[k].visited) \subseteq stack[k].present
          /\ \A j \in stack[k].present :
                j < stack[k].i => j \in Range(stack[k].visited)
          /\ stack[k].held # None =>
                stack[k].visited[Len(stack[k].visited)]
                    = HandleFromIndex(pool, stack[k].i)
    /\ \A k \in 1..Len(returned) :
          /\ Ascending(returned[k].visited)
          /\ Range(returned[k].visited) = returned[k].present

\* a poll over two nodes returned after calling the two handlers in turn
TwoHandlersRan ==
    /\ returned # << >>
    /\ returned[Len(returned)].visited = <<1, 2>>

\* C3 as stated: when a poll returns the event it popped, the handler of
\* every node that occupies an arena slot has been called for it.
DispatchReachesEveryOccupant ==
    (last.op = "poll_ui_event" /\ last.ret = "some") =>
        Range(returned[Len(returned)].visited)
            = {j \in 1..Len(pool) : pool[j] # None}

----------------------------------------------------------------------------
(* The gathering of poll_ui_event *)

\* the step is the first part of a poll_ui_event call
PollStarted ==
    \/ last'.op = "pop"
    \/ last'.op = "poll_ui_event" /\ last'.ret = "none"

\* the shared queue after the gathering, before the pop
Gathered ==
    IF last'.op = "pop" THEN <<popped'[Len(popped')]>> \o events' ELSE events'

\* the events the gathering appended
Moved == SubSeq(Gathered, Len(events) + 1, Len(Gathered))

FromNode(q, n) == SelectSeq(q, LAMBDA e : e.source = n)

\* C21: a poll_ui_event call starts by moving the events of the queue of
\* every node that is in the arena to the back of the shared queue: the
\* events that were in the shared queue stay ahead, the moved events come in
\* slot order and, of one node, in the order of its queue, each with the
\* handle of its node as source, and the queues are left empty.  The nodes
\* whose handlers are running are out of the arena and keep their events.
GatherOnPoll ==
    [][PollStarted =>
          /\ Len(Gathered) = Len(events) + PendingInPool(pool, 1)
          /\ SubSeq(Gathered, 1, Len(events)) = events
          /\ \A a, b \in 1..Len(Moved) :
                a < b => Moved[a].source <= Moved[b].source
          /\ \A n \in 1..Len(pool) :
                IF pool[n] = None
                THEN /\ pool'[n] = None
                     /\ FromNode(Moved, n) = << >>
                ELSE /\ pool'[n] = Some([Node(pool, n) EXCEPT !.events = << >>])
                     /\ Len(FromNode(Moved, n)) = Len(Node(pool, n).events)
                     /\ \A k \in 1..Len(Node(pool, n).events) :
                           FromNode(Moved, n)[k] =
                              [Node(pool, n).events[k] EXCEPT !.source = n]
          /\ \A k \in 1..Len(stack) : stack'[k].held = stack[k].held
    ]_vars

\* C21 as stated: after the first part of a poll_ui_event call the queue
\* of every node is empty, the nodes whose handlers are running included.
EveryQueueGathered ==
    (last.op = "pop" \/ (last.op = "poll_ui_event" /\ last.ret = "none")) =>
       PendingInPool(pool, 1) + PendingInStack(stack, 1) = 0

\* a poll gathered one event from each of two nodes: it popped the event
\* of the first node and left the event of the second in the shared queue
GatheredFromTwoNodes ==
    /\ last.op = "pop"
    /\ Len(popped) = 1
    /\ popped[1].source = 1
    /\ Len(events) = 1
    /\ events[1].source = 2
    /\ events[1].arg < popped[1].arg

----------------------------------------------------------------------------
(* The put-back of poll_ui_event *)

\* the names the host gives to the nodes, by the slot they are made in (the
\* root canvas has the empty name): a name tells which node a slot holds
NodeNames == <<"", "n2", "n3", "n4", "n5">>

OwnTemplates == {[DefaultTemplate EXCEPT !.name = NodeNames[Len(pool) + 1]]}

\* the host builds named nodes, queues events and polls; the handlers that
\* run add nodes, change the tree, queue events, capture the mouse and poll
NextRestore ==
    \/ DoAddNode(TRUE, MaxNodes, OwnTemplates, ChildLists)
    \/ DoLinkNodes(InHandler)
    \/ DoUnlinkNode(InHandler)
    \/ DoCaptureMouse(InHandler)
    \/ DoReleaseMouseCapture(InHandler)
    \/ DoSendEvent(TRUE)
    \/ PollBegin(TRUE)
    \/ HandlerEnter
    \/ HandlerReturn
    \/ PollReturn

SpecRestore == Init /\ [][NextRestore]_vars

HoldsOwnNode(p, j) == p[j] # None /\ Node(p, j).name = NodeNames[j]

\* C20: the assertion of poll_ui_event on what replace_at replaced never
\* fails; when a handler returns its slot holds the node that was taken from
\* it; a slot is vacant only while the handler of its node runs; and when a
\* poll returns, every slot that was occupied when it popped holds the node
\* it held then.
PutBackRestores ==
    /\ last.op = "handler_return" =>
          /\ last.ret = "ok"
          /\ ~panicked
          /\ HoldsOwnNode(pool, last.arg)
    /\ \A k \in 1..Len(stack) :
          stack[k].held # None =>
             /\ pool[stack[k].i] = None
             /\ stack[k].held[1].name = NodeNames[stack[k].i]
    /\ \A j \in 1..Len(pool) :
          IF j \in HeldHandles THEN pool[j] = None ELSE HoldsOwnNode(pool, j)
    /\ (last.op = "poll_ui_event" /\ last.ret = "some") =>
          \A j \in returned[Len(returned)].present : HoldsOwnNode(pool, j)

\* a poll of the host over three nodes returned, and under it the handler
\* of a node had polled: that poll went over the other two nodes
RestoredAfterNestedPoll ==
    /\ AtHost
    /\ last.op = "poll_ui_event" /\ last.ret = "some"
    /\ returned[Len(returned)].depth = 1
    /\ returned[Len(returned)].present = 1..3
    /\ \E k \in 1..Len(returned) :
          /\ returned[k].depth = 2
          /\ Cardinality(returned[k].present) = 2
    /\ \A j \in 1..3 : HoldsOwnNode(pool, j)

----------------------------------------------------------------------------
(* Properties of the tree *)

\* the host builds and changes the tree
NextTree ==
    \/ DoAddNode(AtHost, MaxNodes, PlainTemplates, ChildLists)
    \/ DoLinkNodes(AtHost)
    \/ DoUnlinkNode(AtHost)

SpecTree == Init /\ [][NextTree]_vars

\* C10: a handle is in the child list of P once when the parent field of
\* its node is P, and not at all otherwise.
ParentChildConsistent ==
    ~panicked =>
       \A n \in 1..Len(pool), P \in 1..Len(pool) :
          (BorrowOk(pool, n) /\ BorrowOk(pool, P)) =>
             Count(Node(pool, P).children, n)
                = (IF Node(pool, n).parent = P THEN 1 ELSE 0)

\* a node was moved under a parent that is not the root, beside a sibling
Relinked ==
    /\ last.op = "link_nodes"
    /\ \E n \in 1..Len(pool) :
          /\ Node(pool, n).parent \notin {NONE, root_canvas}
          /\ Node(pool, Node(pool, n).parent).children = <<n>>
    /\ Len(Node(pool, root_canvas).children) >= 1

\* the nodes that hold n in their child list
Holders(p, n) ==
    {P \in 1..Len(p) : BorrowOk(p, P) /\ n \in Range(Node(p, P).children)}

\* the nodes that have no parent
Parentless(p) == {n \in 1..Len(p) : BorrowOk(p, n) /\ IsNone(Node(p, n).parent)}

\* C11 (amended): every node has at most one parent, the node of its parent
\* field, which is the only node that lists it.  add_node gives the new node
\* the root for parent and makes the new node the parent of the children it
\* came with; link_nodes gives the child a parent; unlink_node leaves its
\* node without a parent, the root or not; no call changes the parent of
\* another node.
ParentsFollowCalls ==
    [][ ~panicked' =>
          \A n \in 1..Len(pool') :
             LET before == IF n <= Len(pool) THEN Node(pool, n).parent ELSE NONE
                 after == Node(pool', n).parent
             IN  /\ Holders(pool', n) = (IF IsNone(after) THEN {} ELSE {after})
                 /\ last'.op = "add_node" =>
                       IF n = last'.arg THEN after = root_canvas
                       ELSE after \in {before, last'.arg}
                 /\ last'.op = "link_nodes" =>
                       IF n = last'.arg THEN IsSome(after) ELSE after = before
                 /\ last'.op = "unlink_node" =>
                       IF n = last'.arg THEN IsNone(after) ELSE after = before
      ]_vars

\* C11 as stated: the root canvas is the one node without a parent
SingleParentlessRoot == ~panicked => Parentless(pool) = {root_canvas}

\* unlink_node left a node that is not the root without a parent, beside
\* the root
UnlinkedSecondRoot ==
    /\ last.op = "unlink_node"
    /\ last.arg # root_canvas
    /\ {root_canvas, last.arg} \subseteq Parentless(pool)
    /\ Holders(pool, last.arg) = {}

----------------------------------------------------------------------------
(* Properties of the searches *)

NamedTemplates == {[DefaultTemplate EXCEPT !.name = n] : n \in WidgetNames}

\* the host builds a tree of named nodes and searches it
NextFind ==
    \/ DoAddNode(AtHost, MaxNodes, NamedTemplates, ChildLists)
    \/ DoFindDown(AtHost)
    \/ DoFindUp(AtHost)

SpecFind == Init /\ [][NextFind]_vars

\* the nodes from h up to the node that has no parent
RECURSIVE Ancestors(_, _, _)
Ancestors(p, h, seen) ==
    IF IsNone(h) \/ h \in seen THEN seen
    ELSE Ancestors(p, Node(p, h).parent, seen \cup {h})

\* the nodes a search from the start node looks at
Searched(op, start) ==
    IF op \in {"find_by_criteria_down", "find_by_name_down"}
    THEN Reach(pool, {start}, {})
    ELSE Ancestors(pool, start, {})

\* C12: a search that starts at a valid node and meets no node that
\* satisfies the criterion returns the null handle and does not fail.
SearchMissReturnsNone ==
    (/\ last.op \in {"find_by_criteria_down", "find_by_criteria_up",
                      "find_by_name_down", "find_by_name_up"}
     /\ IsValidHandle(pool, last.input[1].start)
     /\ \A n \in Searched(last.op, last.input[1].start) :
           ~Satisfies(last.input[1].func, Node(pool, n)))
       => (last.ret = "ok" /\ IsNone(last.arg) /\ ~panicked)

----------------------------------------------------------------------------
(* The frame: update, draw and the input of the window *)

\* events waiting in the shared queue when the window delivers input
MaxPending == 2

\* the size of the window
ScreenSizes == {Vec2(400, 200)}

\* update(screen_size, dt); a pass over a tree that loops never returns
\* and ends in a stack overflow
DoUpdateAt(caller, sizes) ==
    /\ caller
    /\ CanCall
    /\ \E screen_size \in sizes :
         IF Loops(pool, root_canvas)
         THEN /\ panicked' = TRUE
              /\ last' = [Called("update", NONE, "panic")
                             EXCEPT !.input = Some(screen_size)]
              /\ UNCHANGED pool
         ELSE /\ pool' = Update(pool, root_canvas, screen_size)
              /\ last' = [Called("update", NONE, "ok")
                             EXCEPT !.input = Some(screen_size)]
              /\ UNCHANGED panicked
    /\ Counted
    /\ UNCHANGED <<root_canvas, picked_node, prev_picked_node, captured_node,
                   keyboard_focus_node, mouse_position, events, commands,
                   stack, sent, popped, returned>>

DoUpdate(caller) == DoUpdateAt(caller, ScreenSizes)

\* draw(); a pass that panics or is killed leaves the buffer and the
\* indices as they were when it ended.  Whether nesting + 1 is checked
\* depends on the build: either build is drawn at each call, which allows
\* every run of either build.
DoDraw(caller) ==
    /\ caller
    /\ CanCall
    /\ \E checks \in BOOLEAN :
       LET d == Draw(pool, root_canvas, checks)
       IN  /\ pool' = d.pool
           /\ commands' = d.cmds
           /\ panicked' = (d.end # "ok")
           /\ last' = Called("draw", NONE,
                             IF d.end = "ok" THEN "ok" ELSE "panic")
    /\ Counted
    /\ UNCHANGED <<root_canvas, picked_node, prev_picked_node, captured_node,
                   keyboard_focus_node, mouse_position, events, stack, sent,
                   popped, returned>>

\* Widget::set_visibility with one of the values
DoSetVisibilityAmong(caller, values) ==
    /\ caller
    /\ CanCall
    /\ \E h \in 1..Len(pool), v \in values :
         /\ BorrowOk(pool, h)
         /\ Node(pool, h).visibility # v
         /\ pool' = SetNode(pool, h, [Node(pool, h) EXCEPT !.visibility = v])
    /\ last' = Called("set_visibility", NONE, "ok")
    /\ Counted
    /\ UNCHANGED <<root_canvas, picked_node, prev_picked_node, captured_node,
                   keyboard_focus_node, mouse_position, events, commands,
                   stack, panicked, sent, popped, returned>>

DoSetVisibility(caller) ==
    DoSetVisibilityAmong(caller, {"Visible", "Collapsed", "Hidden"})

\* process_input_event, called by the host with one of the inputs
DoProcessInputEvent(caller, inputs) ==
    /\ caller
    /\ CanCall
    /\ Len(events) <= MaxPending
    /\ \E event \in inputs :
         LET r == ProcessInputEvent(UiRecord, event)
         IN  /\ pool' = r.pool
             /\ picked_node' = r.picked_node
             /\ prev_picked_node' = r.prev_picked_node
             /\ keyboard_focus_node' = r.keyboard_focus_node
             /\ mouse_position' = r.mouse_position
             /\ events' = events \o r.pushed
             /\ sent' = sent \o r.pushed
             /\ last' = [ op |-> "process_input_event", arg |-> NONE,
                          ret |-> IF r.event_processed THEN "true" ELSE "false",
                          evt |-> None, input |-> Some(event) ]
    /\ Counted
    /\ UNCHANGED <<root_canvas, captured_node, commands, stack, panicked,
                   popped, returned>>

\* hit_test(pt), called by the host or by the handler that is running
DoHitTestAt(caller, points) ==
    /\ caller
    /\ CanCall
    /\ \E pt \in points, valid \in IsValidHandleAnswers(pool, captured_node) :
         IF HitTestPanics(valid, pool, commands, captured_node, root_canvas,
                          pt)
         THEN /\ panicked' = TRUE
              /\ last' = [Called("hit_test", NONE, "panic")
                             EXCEPT !.input = Some(pt)]
         ELSE /\ last' = [Called("hit_test",
                                 HitTest(valid, pool, commands, captured_node,
                                         root_canvas, pt), "ok")
                             EXCEPT !.input = Some(pt)]
              /\ UNCHANGED panicked
    /\ Counted
    /\ UNCHANGED <<pool, root_canvas, picked_node, prev_picked_node,
                   captured_node, keyboard_focus_node, mouse_position, events,
                   commands, stack, sent, popped, returned>>

DoHitTest(caller) == DoHitTestAt(caller, Points)

\* controls that lay themselves out at the left and at the right of their
\* parent and fill their bounds
LeftBox ==
    [DefaultTemplate EXCEPT !.width = 200, !.horizontal_alignment = "Left",
                            !.draws = "bounds"]

RightBox ==
    [DefaultTemplate EXCEPT !.width = 200, !.horizontal_alignment = "Right",
                            !.draws = "bounds"]

SceneTemplates == {LeftBox, RightBox}

\* nodes of a scene, the root included
MaxSceneNodes == 3

\* the host builds a scene, lays it out, draws it and feeds it the moves and
\* the presses of the mouse
NextInput ==
    \/ DoAddNode(AtHost, MaxSceneNodes, SceneTemplates, NoChildren)
    \/ DoUpdate(AtHost)
    \/ DoDraw(AtHost)
    \/ DoProcessInputEvent(AtHost, PointerEvents)

SpecInput == Init /\ [][NextInput]_vars

\* every input the window delivers
NextKeys ==
    \/ DoAddNode(AtHost, MaxSceneNodes, SceneTemplates, NoChildren)
    \/ DoUpdate(AtHost)
    \/ DoDraw(AtHost)
    \/ DoProcessInputEvent(AtHost, KeyEvents \cup {PressEvent})

SpecKeys == Init /\ [][NextKeys]_vars

\* nodes of a scene with a capture, the root included
MaxCaptureNodes == 2

\* the host, and the handlers of the nodes, capture and release the mouse and
\* ask for the node under a point
NextCapture ==
    \/ DoAddNode(AtHost, MaxCaptureNodes, {LeftBox}, NoChildren)
    \/ DoUpdate(AtHost)
    \/ DoDraw(AtHost)
    \/ DoSetVisibility(AtHost)
    \/ DoCaptureMouse(TRUE)
    \/ DoReleaseMouseCapture(TRUE)
    \/ DoHitTest(TRUE)
    \/ DoSendEvent(AtHost)
    \/ PollBegin(AtHost)
    \/ HandlerEnter
    \/ HandlerReturn
    \/ PollReturn

SpecCapture == Init /\ [][NextCapture]_vars

\* trees of visible, collapsed and hidden nodes
HiddenTemplates ==
    {[DefaultTemplate EXCEPT !.visibility = v] :
        v \in {"Visible", "Collapsed", "Hidden"}}

NextVis ==
    \/ DoAddNode(AtHost, MaxNodes, HiddenTemplates, ChildLists)
    \/ DoUnlinkNode(AtHost)
    \/ DoSetVisibility(AtHost)
    \/ DoUpdate(AtHost)

SpecVis == Init /\ [][NextVis]_vars

----------------------------------------------------------------------------
(* Cycles *)

\* the parent links from the node lead back to it
ParentCycle(p, h) ==
    IsSome(Node(p, h).parent) /\ h \in Ancestors(p, Node(p, h).parent, {})

\* C29: the parent links of the nodes hold no cycle, and the passes of
\* update and draw over the child lists, from the root, meet no node twice.
ParentLinksAcyclic ==
    /\ \A h \in 1..Len(pool) : ~ParentCycle(pool, h)
    /\ ~Loops(pool, root_canvas)

----------------------------------------------------------------------------
(* The node under a point *)

\* nodes of a scene of nested controls, the root included
MaxPickNodes == 4

\* controls that fill the bounds they are given, and one that is not
\* hit-test visible
FillBox == [DefaultTemplate EXCEPT !.draws = "bounds"]

PickTemplates == {FillBox, [FillBox EXCEPT !.is_hit_test_visible = FALSE]}

\* child lists of nodes below the root
ChildListsBelowRoot ==
    {<< >>} \cup {<<h>> : h \in (1..Len(pool)) \ {root_canvas}}

\* the host builds a scene of nested controls, lays it out, draws it and
\* asks for the node under a point
NextPick ==
    \/ DoAddNode(AtHost, MaxPickNodes, PickTemplates, ChildListsBelowRoot)
    \/ DoUpdate(AtHost)
    \/ DoDraw(AtHost)
    \/ DoHitTest(AtHost)

SpecPick == Init /\ [][NextPick]_vars

\* the nodes pick_node visits from h: the children of a node that is not
\* hit-test visible are not visited
RECURSIVE Eligible(_, _)
Eligible(p, h) ==
    IF ~Node(p, h).is_hit_test_visible THEN {}
    ELSE {h} \cup UNION {Eligible(p, Node(p, h).children[k]) :
                            k \in 1..Len(Node(p, h).children)}

\* the nodes pick_node visits from the root that contain the point
Candidates(pt) ==
    {n \in Eligible(pool, root_canvas) :
        IsNodeContainsPoint(pool, commands, n, pt)}

\* the nesting depth of a node: the number of its ancestors
RECURSIVE Depth(_, _)
Depth(p, h) ==
    IF IsNone(Node(p, h).parent) THEN 0 ELSE 1 + Depth(p, Node(p, h).parent)

\* the nodes pick_node visits from h, in the order it visits them
RECURSIVE Preorder(_, _)
RECURSIVE PreorderOfChildren(_, _)
PreorderOfChildren(p, children) ==
    IF children = << >> THEN << >>
    ELSE Preorder(p, Head(children)) \o PreorderOfChildren(p, Tail(children))

Preorder(p, h) ==
    IF ~Node(p, h).is_hit_test_visible THEN << >>
    ELSE <<h>> \o PreorderOfChildren(p, Node(p, h).children)

\* C13: the pick from the root is, among the nodes that contain the point
\* and are reached through hit-test-visible nodes, one of the greatest
\* nesting depth.
PickIsDeepest ==
    (last.op = "hit_test" /\ last.ret = "ok" /\ IsNone(captured_node)) =>
        LET C == Candidates(last.input[1])
        IN  IF C = {} THEN IsNone(last.arg)
            ELSE /\ last.arg \in C
                 /\ \A m \in C : Depth(pool, last.arg) >= Depth(pool, m)

\* the nodes of the visit that contain the point, in the order of the visit
CandidatesInOrder(pt) ==
    SelectSeq(Preorder(pool, root_canvas),
              LAMBDA n : IsNodeContainsPoint(pool, commands, n, pt))

\* C28: the pick from the root is the last node, in the pre-order of the
\* visit, that contains the point and is reached through hit-test-visible
\* nodes, and the null handle when there is none; no node at or below a node
\* that is not hit-test visible is picked.
PickIsLastInPreorder ==
    (last.op = "hit_test" /\ last.ret = "ok" /\ IsNone(captured_node)) =>
        LET order == CandidatesInOrder(last.input[1])
        IN  /\ last.arg = IF order = << >> THEN NONE ELSE order[Len(order)]
            /\ \A n \in 1..Len(pool) :
                  ~Node(pool, n).is_hit_test_visible
                     => last.arg \notin Reach(pool, {n}, {})

\* the pick is a later sibling of a node that holds a deeper node under
\* the point
PickedLaterSibling ==
    /\ last.op = "hit_test" /\ last.ret = "ok"
    /\ IsSome(last.arg)
    /\ Len(CandidatesInOrder(last.input[1])) >= 3
    /\ \E m \in Candidates(last.input[1]) :
          Depth(pool, m) > Depth(pool, last.arg)

----------------------------------------------------------------------------
(* Layout *)

Thickness(l, t, r, b) == [left |-> l, top |-> t, right |-> r, bottom |-> b]

\* a control of 100 by 50 in the middle of its parent
CenteredBox ==
    [DefaultTemplate EXCEPT !.width = 10000, !.height = 5000,
                            !.horizontal_alignment = "Center",
                            !.vertical_alignment = "Center"]

\* controls that stretch: with margins, with margins larger than any
\* window, with a greatest size, and along one axis only; and a control
\* that does not stretch and has margins larger than any window
StretchTemplates ==
    {[DefaultTemplate EXCEPT !.margin = Thickness(1000, 500, 2000, 0)],
     [DefaultTemplate EXCEPT !.margin = Thickness(50000, 50000, 50000, 50000)],
     [DefaultTemplate EXCEPT !.max_size = Vec2(5000, 5000)],
     [DefaultTemplate EXCEPT !.margin = Thickness(50000, 50000, 50000, 50000),
                             !.horizontal_alignment = "Left",
                             !.vertical_alignment = "Top"],
     [DefaultTemplate EXCEPT !.height = 5000, !.vertical_alignment = "Top",
                             !.margin = Thickness(0, 0, 1000, 0)]}

LayoutTemplates == {CenteredBox} \cup StretchTemplates

\* the sizes of the window: 800 by 600, and 40 by 20
LayoutSizes == {Vec2(80000, 60000), Vec2(4000, 2000)}

\* nodes of a layout, the root included
MaxLayoutNodes == 3

\* the host builds a tree of controls and lays it out
NextLayout ==
    \/ DoAddNode(AtHost, MaxLayoutNodes, LayoutTemplates, ChildListsBelowRoot)
    \/ DoUpdateAt(AtHost, LayoutSizes)

SpecLayout == Init /\ [][NextLayout]_vars

\* the widget was built from the template
BuiltFrom(widget, t) ==
    \A f \in DOMAIN t : widget[f] = t[f]

\* C15: after an update that offers the root 800 by 600, a Visible child
\* of the root of width 100 and height 50, centred on both axes and
\* without margin, has the actual local position (350, 275) and the actual
\* size (100, 50).
CenteredChildLayout ==
    (last.op = "update" /\ last.ret = "ok"
        /\ last.input = Some(Vec2(80000, 60000))) =>
       \A c \in Range(Node(pool, root_canvas).children) :
          BuiltFrom(Node(pool, c), CenteredBox) =>
             /\ Node(pool, c).actual_local_position = Vec2(35000, 27500)
             /\ Node(pool, c).actual_size = Vec2(10000, 5000)

\* the root was offered 800 by 600 and laid out its one child, the centred
\* control
CenteredChildLaidOut ==
    /\ last.op = "update"
    /\ last.ret = "ok"
    /\ last.input = Some(Vec2(80000, 60000))
    /\ Len(Node(pool, root_canvas).children) = 1
    /\ LET c == Node(pool, root_canvas).children[1]
       IN  /\ BuiltFrom(Node(pool, c), CenteredBox)
           /\ Node(pool, c).children = << >>
           /\ Node(pool, c).actual_local_position = Vec2(35000, 27500)
           /\ Node(pool, c).actual_size = Vec2(10000, 5000)

\* the size a node that is offered a size hands to the arrange of its
\* children: its explicit size where it has one, else the offer less its
\* margin, not less than zero, and on an axis it does not stretch along not
\* more than its desired size less its margin
HandedDown(widget, offered) ==
    LET margin_x == widget.margin.left + widget.margin.right
        margin_y == widget.margin.top + widget.margin.bottom
        room_x == maxf(0, offered.x - margin_x)
        room_y == maxf(0, offered.y - margin_y)
    IN  Vec2(IF Gt(widget.width, 0) THEN widget.width
             ELSE IF widget.horizontal_alignment = "Stretch" THEN room_x
             ELSE minf(room_x, widget.desired_size.x - margin_x),
             IF Gt(widget.height, 0) THEN widget.height
             ELSE IF widget.vertical_alignment = "Stretch" THEN room_y
             ELSE minf(room_y, widget.desired_size.y - margin_y))

\* the size the arrange of h is offered in an update: the window for the
\* node without a parent, and what its parent hands down for another
RECURSIVE OfferedTo(_, _, _)
OfferedTo(p, h, screen_size) ==
    IF IsNone(Node(p, h).parent) THEN screen_size
    ELSE HandedDown(Node(p, Node(p, h).parent),
                    OfferedTo(p, Node(p, h).parent, screen_size))

\* the nodes the arrange pass of an update lays out: the nodes of the tree
\* that are Visible below Visible nodes only
RECURSIVE Arranged(_, _)
Arranged(p, h) ==
    IF Node(p, h).visibility # "Visible" THEN {}
    ELSE {h} \cup UNION {Arranged(p, Node(p, h).children[k]) :
                            k \in 1..Len(Node(p, h).children)}

\* the offer less the margin, not less than zero and not more than the
\* offer
OfferLessMargin(offered, margin) ==
    LET room == IF offered - margin > 0 THEN offered - margin ELSE 0
    IN  IF room > offered THEN offered ELSE room

\* C16 (amended): after an update, a Visible node that stretches along an
\* axis and has no explicit size on it has, on that axis, the size it was
\* offered less its margin, or zero when the margin is larger than the
\* offer, or the offered size itself when that is negative, whatever its
\* desired size.
StretchFillsOffer ==
    (last.op = "update" /\ last.ret = "ok") =>
       \A h \in Arranged(pool, root_canvas) :
          LET widget == Node(pool, h)
              offered == OfferedTo(pool, h, last.input[1])
              margin_x == widget.margin.left + widget.margin.right
              margin_y == widget.margin.top + widget.margin.bottom
          IN  /\ (widget.horizontal_alignment = "Stretch" /\ IsNaN(widget.width))
                    => widget.actual_size.x = OfferLessMargin(offered.x, margin_x)
              /\ (widget.vertical_alignment = "Stretch" /\ IsNaN(widget.height))
                    => widget.actual_size.y = OfferLessMargin(offered.y, margin_y)

\* C16 as stated: the size is the offer less the margin
StretchIsOfferLessMargin ==
    (last.op = "update" /\ last.ret = "ok") =>
       \A h \in Arranged(pool, root_canvas) :
          LET widget == Node(pool, h)
              offered == OfferedTo(pool, h, last.input[1])
              margin_x == widget.margin.left + widget.margin.right
              margin_y == widget.margin.top + widget.margin.bottom
          IN  /\ (widget.horizontal_alignment = "Stretch" /\ IsNaN(widget.width))
                    => widget.actual_size.x = offered.x - margin_x
              /\ (widget.vertical_alignment = "Stretch" /\ IsNaN(widget.height))
                    => widget.actual_size.y = offered.y - margin_y

\* a stretched node with a margin was laid out larger than its desired
\* size less the margin
StretchedBeyondDesire ==
    /\ last.op = "update"
    /\ last.ret = "ok"
    /\ \E h \in Arranged(pool, root_canvas) :
          LET widget == Node(pool, h)
              margin_x == widget.margin.left + widget.margin.right
          IN  /\ IsSome(widget.parent)
              /\ widget.horizontal_alignment = "Stretch"
              /\ IsNaN(widget.width)
              /\ margin_x > 0
              /\ widget.actual_size.x > widget.desired_size.x - margin_x
              /\ widget.actual_size.x
                    = OfferedTo(pool, h, last.input[1]).x - margin_x

----------------------------------------------------------------------------
(* Layout of the nodes that are not Visible *)

\* controls of width 2.0 at the left of their parent, of each visibility
BoxesOfEachVisibility ==
    {[LeftBox EXCEPT !.visibility = v] :
        v \in {"Visible", "Collapsed", "Hidden"}}

\* the host builds a scene, shows and hides its nodes, lays it out, draws
\* it and asks for the node under a point
NextCollapse ==
    \/ DoAddNode(AtHost, MaxSceneNodes, BoxesOfEachVisibility,
                 ChildListsBelowRoot)
    \/ DoSetVisibility(AtHost)
    \/ DoUpdate(AtHost)
    \/ DoDraw(AtHost)
    \/ DoHitTest(AtHost)

SpecCollapse == Init /\ [][NextCollapse]_vars

\* C17: after an update, every node whose visibility is Collapsed has the
\* desired size (0, 0) and the actual size (0, 0), and hit_test without a
\* capture returns it for no point.
CollapsedTakesNoSpace ==
    (last.op = "update" /\ last.ret = "ok") =>
       \A h \in Reach(pool, {root_canvas}, {}) :
          Node(pool, h).visibility = "Collapsed" =>
             /\ Node(pool, h).desired_size = Vec2Zero
             /\ Node(pool, h).actual_size = Vec2Zero
             /\ \A pt \in Points :
                   HitTest(FALSE, pool, commands, NONE, root_canvas, pt) # h

\* the desired size measure gives the node when it is offered the size
MeasuredSize(p, h, available_size) ==
    Node(Measure(p, h, available_size), h).desired_size

\* the arena with the node made Visible and nothing else changed
AsVisible(p, h) == SetNode(p, h, [Node(p, h) EXCEPT !.visibility = "Visible"])

\* the nodes an update measures with the size of the window: the root, and
\* the children of the root when the root is Visible
OfferedTheWindow ==
    {root_canvas} \cup
    (IF Node(pool, root_canvas).visibility = "Visible"
     THEN Range(Node(pool, root_canvas).children) ELSE {})

\* C18: a Hidden node keeps its space in the layout: after an update its
\* desired size is the desired size measure gives the same node when it is
\* Visible and is offered the same size.
HiddenKeepsSpace ==
    (last.op = "update" /\ last.ret = "ok") =>
       \A h \in OfferedTheWindow :
          Node(pool, h).visibility = "Hidden" =>
             Node(pool, h).desired_size
                = MeasuredSize(AsVisible(pool, h), h, last.input[1])

----------------------------------------------------------------------------
(* Sizes *)

\* widgets with and without explicit sizes, negative ones too, with
\* margins smaller and larger than the window, stretched or not, with and
\* without smallest and greatest sizes
SizeTemplates ==
    {[DefaultTemplate EXCEPT !.width = w, !.height = h, !.margin = m,
                             !.horizontal_alignment = a[1],
                             !.vertical_alignment = a[2],
                             !.min_size = b[1], !.max_size = b[2]] :
        w \in {NaN, -500, 200}, h \in {NaN, -500, 200},
        m \in {ThicknessZero, Thickness(300, 300, 300, 300)},
        a \in {<<"Stretch", "Stretch">>, <<"Left", "Top">>},
        b \in {<<Vec2Zero, Vec2(Inf, Inf)>>, <<Vec2(100, 100), Vec2(150, 150)>>}}

\* the host builds a tree of such widgets and lays it out
NextSizes ==
    \/ DoAddNode(AtHost, MaxSceneNodes, SizeTemplates, ChildListsBelowRoot)
    \/ DoUpdate(AtHost)

SpecSizes == Init /\ [][NextSizes]_vars

NonNegative(v) == v.x >= 0 /\ v.y >= 0

\* C19: after an update, the desired size and the actual size of every
\* node have no negative component.
SizesNonNegative ==
    (last.op = "update" /\ last.ret = "ok") =>
       \A h \in 1..Len(pool) :
          /\ NonNegative(Node(pool, h).desired_size)
          /\ NonNegative(Node(pool, h).actual_size)

\* the size measure hands to the children of the node (size_for_child)
SizeForChild(widget, available_size) ==
    LET margin == Vec2(widget.margin.left + widget.margin.right,
                       widget.margin.top + widget.margin.bottom)
        w == IF Gt(widget.width, 0) THEN widget.width
             ELSE maxf(0, available_size.x - margin.x)
        hh == IF Gt(widget.height, 0) THEN widget.height
              ELSE maxf(0, available_size.y - margin.y)
    IN  Vec2(ClampSize(w, widget.min_size.x, widget.max_size.x),
             ClampSize(hh, widget.min_size.y, widget.max_size.y))

\* the available size measure is called with for the node, in an update
\* with this screen size
RECURSIVE AvailableTo(_, _, _)
AvailableTo(p, h, screen_size) ==
    IF IsNone(Node(p, h).parent) THEN screen_size
    ELSE SizeForChild(Node(p, Node(p, h).parent),
                      AvailableTo(p, Node(p, h).parent, screen_size))

\* the largest desired size of the children on an axis: what the default
\* measure_override computes
RECURSIVE LargestDesired(_, _, _)
LargestDesired(p, children, axis) ==
    IF children = << >> THEN 0
    ELSE LET rest == LargestDesired(p, Tail(children), axis)
             mine == IF axis = "x" THEN Node(p, Head(children)).desired_size.x
                     ELSE Node(p, Head(children)).desired_size.y
         IN  IF mine > rest THEN mine ELSE rest

\* min(available, clamp(v, lo, hi) + margin)
DesiredOnAxis(explicit, computed, lo, hi, margin, available) ==
    LET v == IF IsNaN(explicit) THEN computed ELSE explicit
        c == IF v > hi THEN hi ELSE IF v < lo THEN lo ELSE v
    IN  IF c + margin > available THEN available ELSE c + margin

\* the nodes measure writes a desired size for: the root, and the nodes
\* below Visible nodes
RECURSIVE Measured(_, _)
Measured(p, h) ==
    {h} \cup (IF Node(p, h).visibility = "Visible"
              THEN UNION {Measured(p, Node(p, h).children[k]) :
                             k \in 1..Len(Node(p, h).children)}
              ELSE {})

\* C24: after an update the desired size of every Visible node is, on each
\* axis, min(available, clamp(v, min_size, max_size) + margin), where v is
\* the explicit size when there is one and the size measure_override
\* computed otherwise.
MeasureSameOnBothAxes ==
    (last.op = "update" /\ last.ret = "ok") =>
       \A h \in Measured(pool, root_canvas) :
          LET widget == Node(pool, h)
              available == AvailableTo(pool, h, last.input[1])
          IN  widget.visibility = "Visible" =>
                 /\ widget.desired_size.x =
                       DesiredOnAxis(widget.width,
                          LargestDesired(pool, widget.children, "x"),
                          widget.min_size.x, widget.max_size.x,
                          widget.margin.left + widget.margin.right, available.x)
                 /\ widget.desired_size.y =
                       DesiredOnAxis(widget.height,
                          LargestDesired(pool, widget.children, "y"),
                          widget.min_size.y, widget.max_size.y,
                          widget.margin.top + widget.margin.bottom, available.y)

----------------------------------------------------------------------------
(* Clipping *)

\* controls at the left of their parent whose geometry reaches beyond
\* their bounds
WideOverflow == [LeftBox EXCEPT !.draws = "overflow"]

NarrowOverflow == [LeftBox EXCEPT !.width = 100, !.draws = "overflow"]

ClipTemplates == {WideOverflow, NarrowOverflow}

\* the points asked about: one lies less than 0.9 beyond the right edge of
\* a control of width 2.0
ProbePoints == Points \cup {Vec2(250, 100)}

\* the host builds a scene of nested controls that overflow, lays it out,
\* draws it and asks for the node under a point
NextClip ==
    \/ DoAddNode(AtHost, MaxSceneNodes, ClipTemplates, ChildListsBelowRoot)
    \/ DoUpdate(AtHost)
    \/ DoDraw(AtHost)
    \/ DoHitTestAt(AtHost, ProbePoints)

SpecClip == Init /\ [][NextClip]_vars

StrictlyOutside(r, pt) ==
    \/ pt.x < r.x \/ pt.x > r.x + r.w
    \/ pt.y < r.y \/ pt.y > r.y + r.h

\* neither N nor a descendant of N contains the point or is picked at it
SubtreeMisses(N, pt) ==
    \A D \in Reach(pool, {N}, {}) :
        /\ ~IsNodeContainsPoint(pool, commands, D, pt)
        /\ PickNode(pool, commands, root_canvas, pt, 0).picked # D

----------------------------------------------------------------------------
(* The nodes that contain a point *)

\* the links that keep the tree a tree: the child is not the root, not the
\* parent and not above the parent
TreePairs ==
    {pair \in (2..Len(pool)) \X (1..Len(pool)) :
        pair[1] \notin Ancestors(pool, pair[2], {})}

\* the sizes of the window: the window is made narrower
ContainSizes == {Vec2(400, 200), Vec2(200, 200)}

\* the host builds a scene, shows and hides its nodes, moves them in the
\* tree, lays the scene out, draws it and asks for the node under a point.
\* A node that is out of the tree while the window gets narrower keeps its
\* place, and is drawn beyond the bounds of its parent when it is linked
\* again.
NextContain ==
    \/ DoAddNode(AtHost, MaxCaptureNodes, {RightBox}, NoChildren)
    \/ DoSetVisibility(AtHost)
    \/ DoUnlinkNode(AtHost)
    \/ DoLinkNodesAmong(AtHost, TreePairs)
    \/ DoUpdateAt(AtHost, ContainSizes)
    \/ DoDraw(AtHost)
    \/ DoHitTestAt(AtHost, Points)

SpecContain == Init /\ [][NextContain]_vars

NoClipCommand(widget) ==
    \A k \in 1..Len(widget.command_indices) :
        widget.command_indices[k] < Len(commands)
           => commands[widget.command_indices[k] + 1].kind # "Clip"

\* the node has a geometry command that holds the point, and the node and
\* every node above it have a clip command that holds it
InGeometryAndClips(N, pt) ==
    /\ Node(pool, N).global_visibility
    /\ HasCommandAt(commands, Node(pool, N), "Geometry", pt)
    /\ \A a \in Ancestors(pool, N, {}) :
          HasCommandAt(commands, Node(pool, a), "Clip", pt)

\* C23: a node contains a point exactly when it is globally visible, one
\* of its geometry commands holds the point, and it and every node above it
\* up to the root have the global_visibility flag set and a clip command
\* that holds the point; a node without a clip command contains no point,
\* and neither does a node below it.
ContainsPointRule ==
    \A N \in 1..Len(pool) :
       /\ \A pt \in Points :
             IsNodeContainsPoint(pool, commands, N, pt)
                <=> /\ InGeometryAndClips(N, pt)
                    /\ \A a \in Ancestors(pool, N, {}) :
                          Node(pool, a).global_visibility
       /\ NoClipCommand(Node(pool, N)) =>
             \A D \in Reach(pool, {N}, {}), pt \in Points :
                ~IsNodeContainsPoint(pool, commands, D, pt)

\* C23 as stated: the flag of the nodes above the node is not looked at.
ContainsPointByCommands ==
    \A N \in 1..Len(pool), pt \in Points :
       IsNodeContainsPoint(pool, commands, N, pt) <=> InGeometryAndClips(N, pt)

\* hit_test was asked for a point that the geometry and the clips of a node
\* and the clips of the nodes above it hold, but a node above it has the
\* global_visibility flag unset: the node does not contain the point
ClippedByInvisibleAncestor ==
    /\ last.op = "hit_test" /\ last.ret = "ok"
    /\ \E N \in 2..Len(pool) :
          /\ InGeometryAndClips(N, last.input[1])
          /\ \E a \in Ancestors(pool, N, {}) : ~Node(pool, a).global_visibility
          /\ ~IsNodeContainsPoint(pool, commands, N, last.input[1])
          /\ last.arg # N

\* hit_test was asked for a point that the geometry and the clip of a node
\* hold, every node above it has the global_visibility flag set, and a node
\* above it has no clip command that holds the point: the node does not
\* contain the point
ClippedByClipOfAncestor ==
    /\ last.op = "hit_test" /\ last.ret = "ok"
    /\ \E N \in 2..Len(pool) :
          /\ Node(pool, N).global_visibility
          /\ HasCommandAt(commands, Node(pool, N), "Geometry", last.input[1])
          /\ HasCommandAt(commands, Node(pool, N), "Clip", last.input[1])
          /\ Ancestors(pool, N, {}) \ {N} # {}
          /\ \A a \in Ancestors(pool, N, {}) : Node(pool, a).global_visibility
          /\ \E a \in Ancestors(pool, N, {}) :
                ~HasCommandAt(commands, Node(pool, a), "Clip", last.input[1])
          /\ ~IsNodeContainsPoint(pool, commands, N, last.input[1])
          /\ last.arg # N

----------------------------------------------------------------------------
(* The command indices of the nodes *)

\* the links of a node under another node: the root is linked under a node
\* below it, too
LinkPairs ==
    {pair \in (1..Len(pool)) \X (1..Len(pool)) : pair[1] # pair[2]}

\* the host builds a scene, shows and collapses its nodes, links any node
\* under any other node, lays the scene out and polls; the host and the
\* handlers draw
NextIndices ==
    \/ DoAddNode(AtHost, MaxCaptureNodes, {LeftBox}, ChildListsBelowRoot)
    \/ DoSetVisibilityAmong(AtHost, {"Visible", "Collapsed"})
    \/ DoUnlinkNode(AtHost)
    \/ DoLinkNodesAmong(AtHost, LinkPairs)
    \/ DoUpdate(AtHost)
    \/ DoDraw(TRUE)
    \/ DoSendEvent(AtHost)
    \/ PollBegin(AtHost)
    \/ HandlerEnter
    \/ HandlerReturn
    \/ PollReturn

SpecIndices == Init /\ [][NextIndices]_vars

\* the commands draw_node appends for the node itself
OwnCommands(widget) ==
    <<[kind |-> "Clip",
       rect |-> Inflate(ScreenBounds(widget), ClipInflate, ClipInflate)]>>
    \o DrawCommands(widget, ScreenBounds(widget))

\* the indices are consecutive indices of the command buffer, and the
\* commands at them are the commands of the node
OwnRange(widget) ==
    LET indices == widget.command_indices
    IN  indices # << >> =>
           /\ \A k \in 1..Len(indices) : indices[k] = indices[1] + k - 1
           /\ indices[Len(indices)] < Len(commands)
           /\ Len(indices) = Len(OwnCommands(widget))
           /\ \A k \in 1..Len(indices) :
                 commands[indices[k] + 1] = OwnCommands(widget)[k]

\* the nodes draw_node draws from a set of nodes: the globally visible
\* nodes, and the globally visible nodes in their child lists
RECURSIVE DrawnFrom(_, _, _)
DrawnFrom(p, frontier, seen) ==
    LET new == {n \in frontier \ seen :
                   BorrowOk(p, n) /\ Node(p, n).global_visibility}
    IN  IF new = {} THEN seen
        ELSE DrawnFrom(p, UNION {Range(Node(p, n).children) : n \in new},
                       seen \cup new)

\* the nodes from h up to the root: the parent link of the root is not
\* followed
RECURSIVE UpToRoot(_, _, _, _)
UpToRoot(p, h, root, seen) ==
    IF IsNone(h) \/ h \in seen \/ ~BorrowOk(p, h) THEN seen
    ELSE IF h = root THEN seen \cup {h}
    ELSE UpToRoot(p, Node(p, h).parent, root, seen \cup {h})

\* C25: after a draw that returns, the indices of every node that is in the
\* arena are a range of consecutive indices of the command buffer that
\* holds the commands of the node and no other, and the ranges of two nodes
\* have no index in common.  The nodes that have indices are the nodes draw
\* reaches from the root through the child lists of globally visible
\* nodes: a node that is globally invisible has no index, nor has a node
\* that is not under the root, nor a node with a globally invisible node
\* between it and the root.  The parent of the root is not looked at.  (A
\* node whose handler is running is out of the arena while a draw called
\* by the handler runs.)
IndicesAfterDraw ==
    (last.op = "draw" /\ last.ret = "ok") =>
       /\ \A h \in OccupiedSlots(pool) :
             LET chain == UpToRoot(pool, h, root_canvas, {})
             IN  /\ OwnRange(Node(pool, h))
                 /\ Node(pool, h).command_indices # << >>
                       <=> h \in DrawnFrom(pool, {root_canvas}, {})
                 /\ ~Node(pool, h).global_visibility
                       => Node(pool, h).command_indices = << >>
                 /\ root_canvas \notin chain
                       => Node(pool, h).command_indices = << >>
                 /\ (\E a \in chain : ~Node(pool, a).global_visibility)
                       => Node(pool, h).command_indices = << >>
       /\ \A h, g \in OccupiedSlots(pool) :
             h # g => Range(Node(pool, h).command_indices)
                         \cap Range(Node(pool, g).command_indices) = {}

\* C25 as stated: the same of every node, the nodes whose handlers are
\* running included, and no index for a node that has a globally invisible
\* node above it.
IndicesOfEveryNodeAfterDraw ==
    (last.op = "draw" /\ last.ret = "ok") =>
       /\ \A h \in OccupiedSlots(pool) :
             /\ OwnRange(Node(pool, h))
             /\ (\E a \in Ancestors(pool, h, {}) :
                     BorrowOk(pool, a) /\ ~Node(pool, a).global_visibility)
                   => Node(pool, h).command_indices = << >>
       /\ \A k \in 1..Len(stack) :
             stack[k].held # None => OwnRange(stack[k].held[1])

\* a draw after the root was hidden: the node below the root has the
\* global_visibility flag set and has lost the indices it had; and a
\* draw of the root and of a visible node below it
NothingDrawnBelowHidden ==
    /\ last.op = "draw" /\ last.ret = "ok"
    /\ AtHost
    /\ ~Node(pool, root_canvas).global_visibility
    /\ \E h \in 2..Len(pool) :
          /\ Node(pool, h).parent = root_canvas
          /\ Node(pool, h).global_visibility
          /\ Node(pool, h).actual_size # Vec2Zero
          /\ Node(pool, h).command_indices = << >>
    /\ commands = << >>

\* a draw after the root was linked under a globally invisible node of its
\* child list: the root has its range, the node has none
RootDrawnBelowHidden ==
    /\ last.op = "draw" /\ last.ret = "ok"
    /\ AtHost
    /\ \E A \in 2..Len(pool) :
          /\ Node(pool, root_canvas).parent = A
          /\ A \in Range(Node(pool, root_canvas).children)
          /\ ~Node(pool, A).global_visibility
          /\ Node(pool, A).actual_size # Vec2Zero
          /\ Node(pool, A).command_indices = << >>
    /\ Node(pool, root_canvas).command_indices # << >>
    /\ commands # << >>

----------------------------------------------------------------------------
(* What process_input_event returns *)

\* C26: process_input_event returns true exactly when it appended an event
\* to the shared queue.
ProcessedIffAppended ==
    [][last'.op = "process_input_event" =>
          (last'.ret = "true" <=> Len(events') > Len(events))]_vars

----------------------------------------------------------------------------
(* The node the mouse is over *)

\* C27: after a process_input_event call no node but the picked node has
\* its mouse-over flag set.
MouseOverIsPicked ==
    last.op = "process_input_event" =>
       \A h \in 1..Len(pool) :
          Node(pool, h).is_mouse_over => h = picked_node

----------------------------------------------------------------------------
(* The inputs that do not move the cursor or press a button *)

\* every kind of input: a move onto the box, a press, and the inputs that
\* do not move the cursor or press a button
RawEvents ==
    {WindowEvent("CursorMoved", "none", Vec2(100, 100), "none", None)}
    \cup {PressEvent} \cup OtherEvents
    \cup {WindowEvent("KeyboardInput", "Pressed", Vec2Zero, "none", Some(KeyA)),
          WindowEvent("ReceivedCharacter", "none", Vec2Zero, "none", None)}

\* the host builds a scene, lays it out, draws it, captures the mouse and
\* feeds the interface every kind of input
NextRaw ==
    \/ DoAddNode(AtHost, MaxCaptureNodes, {LeftBox}, NoChildren)
    \/ DoUpdate(AtHost)
    \/ DoDraw(AtHost)
    \/ DoCaptureMouse(AtHost)
    \/ DoProcessInputEvent(AtHost, RawEvents)

SpecRaw == Init /\ [][NextRaw]_vars

\* the step is a process_input_event call for an input that is neither a
\* cursor move nor a button press
QuietInput ==
    /\ last'.op = "process_input_event"
    /\ last'.input[1].type # "CursorMoved"
    /\ ~(last'.input[1].type = "MouseInput" /\ last'.input[1].state = "Pressed")

\* C22: process_input_event for a button release, a wheel event, a keyboard
\* event, a character or another kind of input leaves the picked node, the
\* focus, the mouse position, the captured node and the mouse-over flags as
\* they were; a release and a line-delta wheel append one MouseUp or
\* MouseWheel event for the picked node when there is one and nothing when
\* there is none; the other kinds append nothing and return false.
QuietInputKeepsPick ==
    [][QuietInput =>
          LET input == last'.input[1]
              told(kind, arg) ==
                 IF IsSome(picked_node)
                 THEN /\ events' = Append(events,
                            UIEvent(kind, mouse_position, arg, picked_node))
                      /\ last'.ret = "true"
                 ELSE /\ events' = events
                      /\ last'.ret = "false"
          IN  /\ picked_node' = picked_node
              /\ keyboard_focus_node' = keyboard_focus_node
              /\ mouse_position' = mouse_position
              /\ captured_node' = captured_node
              /\ Len(pool') = Len(pool)
              /\ \A h \in 1..Len(pool) :
                    Node(pool', h).is_mouse_over = Node(pool, h).is_mouse_over
              /\ (input.type = "MouseInput" /\ input.state = "Released")
                    => told("MouseUp", input.button)
              /\ (input.type = "MouseWheel" /\ input.delta = "LineDelta")
                    => told("MouseWheel", input.amount)
              /\ input.type \notin {"MouseInput", "MouseWheel", "KeyboardInput",
                                    "ReceivedCharacter"}
                    => (events' = events /\ last'.ret = "false")
    ]_vars

\* the button was released over a node the cursor is over: the node is still
\* picked and MouseUp is the last event of the queue
ReleasedOverNode ==
    /\ last.op = "process_input_event"
    /\ last.input[1].type = "MouseInput" /\ last.input[1].state = "Released"
    /\ last.ret = "true"
    /\ IsSome(picked_node)
    /\ Node(pool, picked_node).is_mouse_over
    /\ events # << >>
    /\ events[Len(events)] =
          UIEvent("MouseUp", mouse_position, ButtonLeft, picked_node)

----------------------------------------------------------------------------
(* Capture, and the node under a point *)

\* C4: capture_mouse returns true exactly when no node is captured, and
\* then records its argument; while a node is captured, it returns false
\* and leaves the captured node, which only release_mouse_capture changes.
CaptureFirstWins ==
    [][ /\ last'.op = "capture_mouse" =>
              /\ last'.ret = "true" <=> IsNone(captured_node)
              /\ last'.ret = "true" => captured_node' = last'.arg
              /\ last'.ret = "false" => captured_node' = captured_node
        /\ (IsSome(captured_node) /\ captured_node' # captured_node) =>
              last'.op = "release_mouse_capture" ]_vars

\* a second capture_mouse was refused while another node held the capture
CaptureRefused ==
    /\ last.op = "capture_mouse"
    /\ last.ret = "false"
    /\ IsSome(last.arg)
    /\ IsSome(captured_node)
    /\ captured_node # last.arg

----------------------------------------------------------------------------
(* The translation of the input of the window *)

\* the events the step appended to the shared queue
Appended == SubSeq(events', Len(events) + 1, Len(events'))

\* C6: a cursor move that changes the pick from P to another Q appends
\* MouseLeave(P) if P is a node that had its mouse-over flag set, then
\* MouseEnter(Q) if Q is a node that had not, then MouseMove(Q) if Q is a
\* node, and nothing else; Q is hit_test of the new position.
CursorMoveEvents ==
    [][ (last'.op = "process_input_event"
            /\ last'.input[1].type = "CursorMoved") =>
          LET mouse == last'.input[1].position
              P == prev_picked_node
              Q == picked_node'
              leave == IF IsSome(P) /\ Node(pool, P).is_mouse_over
                       THEN <<UIEvent("MouseLeave", Vec2Zero, 0, P)>>
                       ELSE << >>
              enter == IF IsSome(Q) /\ ~Node(pool, Q).is_mouse_over
                       THEN <<UIEvent("MouseEnter", Vec2Zero, 0, Q)>>
                       ELSE << >>
              move == IF IsSome(Q)
                      THEN <<UIEvent("MouseMove", mouse, 0, Q)>>
                      ELSE << >>
          IN  /\ mouse_position' = mouse
              /\ Q = HitTest(IsValidHandle(pool, captured_node), pool, commands,
                           captured_node, root_canvas, mouse)
              /\ P # Q => Appended = leave \o enter \o move ]_vars

\* the cursor went from no node to X and then to Y
EnteredXThenY ==
    /\ Len(events) = 5
    /\ \E X \in 1..Len(pool), Y \in 1..Len(pool) :
          /\ X # Y
          /\ <<events[1].kind, events[1].source>> = <<"MouseEnter", X>>
          /\ <<events[2].kind, events[2].source>> = <<"MouseMove", X>>
          /\ <<events[3].kind, events[3].source>> = <<"MouseLeave", X>>
          /\ <<events[4].kind, events[4].source>> = <<"MouseEnter", Y>>
          /\ <<events[5].kind, events[5].source>> = <<"MouseMove", Y>>

\* C7: a keyboard or received-character input appends exactly one event
\* (KeyDown or KeyUp by the state, or Text with the character) from the
\* keyboard-focus node and returns true if and only if a node holds the
\* focus and, for keyboard input, the key code is resolvable; otherwise the
\* queue is unchanged and it returns false.
KeysNeedFocus ==
    [][ (last'.op = "process_input_event"
            /\ last'.input[1].type \in {"KeyboardInput", "ReceivedCharacter"}) =>
          LET e == last'.input[1]
              keyboard == e.type = "KeyboardInput"
              fires == /\ IsSome(keyboard_focus_node)
                       /\ keyboard => e.virtual_keycode # None
              expected ==
                  IF keyboard
                  THEN UIEvent(IF e.state = "Pressed" THEN "KeyDown" ELSE "KeyUp",
                               Vec2Zero, e.virtual_keycode[1],
                               keyboard_focus_node)
                  ELSE UIEvent("Text", Vec2Zero, e.char, keyboard_focus_node)
          IN  /\ fires => Appended = <<expected>> /\ last'.ret = "true"
              /\ ~fires => Appended = << >> /\ last'.ret = "false" ]_vars

\* a key went down on the node that holds the focus
KeyDownQueued ==
    /\ last.op = "process_input_event"
    /\ last.input[1].type = "KeyboardInput"
    /\ last.ret = "true"
    /\ IsSome(keyboard_focus_node)
    /\ events[Len(events)].kind = "KeyDown"
    /\ events[Len(events)].source = keyboard_focus_node

\* C8: a press makes the picked node and the keyboard-focus node the result
\* of hit_test at the stored mouse position, the null handle when nothing is
\* hit, and appends exactly one MouseDown from the picked node at that
\* position if and only if the picked node is not null.
PressPicksAndFocuses ==
    [][ (last'.op = "process_input_event"
            /\ last'.input[1].type = "MouseInput"
            /\ last'.input[1].state = "Pressed") =>
          LET hit == HitTest(IsValidHandle(pool, captured_node), pool,
                             commands, captured_node, root_canvas,
                             mouse_position)
          IN  /\ picked_node' = hit
              /\ keyboard_focus_node' = hit
              /\ mouse_position' = mouse_position
              /\ IsSome(hit) =>
                    Appended = <<UIEvent("MouseDown", mouse_position,
                                         last'.input[1].button, hit)>>
              /\ IsNone(hit) => Appended = << >> ]_vars

\* a press on a node gave it the focus, and a later press on nothing took
\* the focus away
FocusCleared ==
    /\ last.op = "process_input_event"
    /\ last.input[1].type = "MouseInput"
    /\ last.ret = "false"
    /\ IsNone(keyboard_focus_node)
    /\ IsNone(picked_node)
    /\ \E k \in 1..Len(events) : events[k].kind = "MouseDown"

----------------------------------------------------------------------------
(* Visibility *)

\* the nodes of the tree of the root
InTree == Reach(pool, {root_canvas}, {})

VisibilityRule(h) ==
    LET widget == Node(pool, h)
    IN  widget.global_visibility =
           (/\ widget.visibility = "Visible"
            /\ IsSome(widget.parent) =>
                  Node(pool, widget.parent).global_visibility)

\* C9 (amended): after a full update pass, every node the pass reaches from
\* the root has global_visibility = (its visibility is Visible) and the
\* global_visibility of its parent, the root taking true for its parent.
GlobalVisibilityInTree ==
    (last.op = "update" /\ last.ret = "ok") =>
        \A h \in InTree : VisibilityRule(h)

\* C9 as stated: the same of every node in the arena
GlobalVisibilityInArena ==
    (last.op = "update" /\ last.ret = "ok") =>
        \A h \in 1..Len(pool) : VisibilityRule(h)

\* a visible node under a collapsed or hidden parent is globally invisible
\* after the update
HiddenByParent ==
    /\ last.op = "update"
    /\ last.ret = "ok"
    /\ \E h \in InTree :
          /\ Node(pool, h).visibility = "Visible"
          /\ ~Node(pool, h).global_visibility
          /\ IsSome(Node(pool, h).parent)
          /\ Node(pool, Node(pool, h).parent).visibility # "Visible"

====
